---- MODULE Spec2Model ----
(***************************************************************************)
(* Model of jupyterlab-diff: the split file diff widget with its debounced *)
(* rebuild (src/src/diff/file.ts), the unified diff manager of a notebook  *)
(* cell (src/src/diff/base-unified-diff.ts, src/src/diff/cell.ts), the     *)
(* notebook-level registry with its floating accept/reject panel           *)
(* (src/unnamed/part_004) and the split diff widget of a cell with its     *)
(* per-chunk arrow buttons (src/src/diff/cell.ts, src/unnamed/part_001).   *)
(*                                                                         *)
(* A text is a sequence of one-character strings; offsets are 0-based as   *)
(* in the source, so the character at offset p of t is t[p + 1].           *)
(***************************************************************************)
EXTENDS Integers, Sequences, FiniteSets, TLC

NL == "\n"

Max(x, y) == IF x >= y THEN x ELSE y

Min(x, y) == IF x <= y THEN x ELSE y

(***************************************************************************)
(* Text helpers: String.prototype.slice / Text.sliceString, Text.replace   *)
(* and Text.lineAt of the editor's document.                               *)
(***************************************************************************)
Slice(t, from, to) == SubSeq(t, from + 1, to)

Replace(t, from, to, ins) == Slice(t, 0, from) \o ins \o Slice(t, to, Len(t))

RECURSIVE LineFrom(_, _)
LineFrom(t, pos) ==
  IF pos = 0 THEN 0
  ELSE IF t[pos] = NL THEN pos
  ELSE LineFrom(t, pos - 1)

RECURSIVE LineTo(_, _)
LineTo(t, pos) ==
  IF pos >= Len(t) THEN Len(t)
  ELSE IF t[pos + 1] = NL THEN pos
  ELSE LineTo(t, pos + 1)

(***************************************************************************)
(* The diff primitive of @codemirror/merge, as the managers use it through *)
(* getChunks: a character diff (longest common subsequence) whose changes  *)
(* are widened to whole lines.  toA / toB is the end of the last line of   *)
(* the chunk plus one, so it can be one past the end of the document.      *)
(***************************************************************************)
LcsTable(a, b) ==
  LET m == Len(a)
      n == Len(b)
      L[i \in 0..m, j \in 0..n] ==
        IF i = m \/ j = n THEN 0
        ELSE IF a[i + 1] = b[j + 1] THEN 1 + L[i + 1, j + 1]
        ELSE Max(L[i + 1, j], L[i, j + 1])
  IN L

RECURSIVE DiffWalk(_, _, _, _, _, _, _)
DiffWalk(a, b, L, i, j, open, acc) ==
  LET m == Len(a)
      n == Len(b)
      closed == IF open = <<>> THEN acc
                ELSE Append(acc, [fromA |-> open[1], toA |-> i,
                                  fromB |-> open[2], toB |-> j])
      opened == IF open = <<>> THEN <<i, j>> ELSE open
  IN IF i = m /\ j = n THEN closed
     ELSE IF i < m /\ j < n /\ a[i + 1] = b[j + 1]
       THEN DiffWalk(a, b, L, i + 1, j + 1, <<>>, closed)
     ELSE IF i < m /\ (j = n \/ L[i + 1, j] >= L[i, j + 1])
       THEN DiffWalk(a, b, L, i + 1, j, opened, acc)
     ELSE DiffWalk(a, b, L, i, j + 1, opened, acc)

presentableDiff(a, b) == DiffWalk(a, b, LcsTable(a, b), 0, 0, <<>>, <<>>)

fromLine(fromA, fromB, a, b) ==
  IF /\ LineTo(a, fromA) = fromA
     /\ LineTo(b, fromB) = fromB
     /\ fromA < Len(a)
     /\ fromB < Len(b)
  THEN <<fromA + 1, fromB + 1>>
  ELSE <<LineFrom(a, fromA), LineFrom(b, fromB)>>

toLine(toA, toB, a, b) ==
  IF LineFrom(a, toA) = toA /\ LineFrom(b, toB) = toB
  THEN <<toA, toB>>
  ELSE <<LineTo(a, toA) + 1, LineTo(b, toB) + 1>>

RECURSIVE ChunkExtend(_, _, _, _, _)
\* The inner loop of toChunks: absorbs the changes that start on the line
\* where the chunk ends; returns <<index of the last change used, toA, toB>>.
ChunkExtend(changes, a, b, i, to) ==
  IF i >= Len(changes) THEN <<i, to[1], to[2]>>
  ELSE LET next == changes[i + 1]
           nf == fromLine(next.fromA, next.fromB, a, b)
       IN IF nf[1] > to[1] + 1 /\ nf[2] > to[2] + 1 THEN <<i, to[1], to[2]>>
          ELSE ChunkExtend(changes, a, b, i + 1,
                           toLine(next.toA, next.toB, a, b))

RECURSIVE toChunks(_, _, _, _, _)
toChunks(changes, a, b, i, acc) ==
  IF i > Len(changes) THEN acc
  ELSE LET change == changes[i]
           from == fromLine(change.fromA, change.fromB, a, b)
           ext == ChunkExtend(changes, a, b, i,
                              toLine(change.toA, change.toB, a, b))
       IN toChunks(changes, a, b, ext[1] + 1,
                   Append(acc, [fromA |-> from[1],
                                toA |-> Max(from[1], ext[2]),
                                fromB |-> from[2],
                                toB |-> Max(from[2], ext[3])]))

ChunkBuild(a, b) == toChunks(presentableDiff(a, b), a, b, 1, <<>>)

endA(ch) == Max(ch.fromA, ch.toA - 1)

endB(ch) == Max(ch.fromB, ch.toB - 1)

(***************************************************************************)
(* acceptChunk / rejectChunk of @codemirror/merge, called by acceptAll and *)
(* rejectAll with the fromB of a chunk.  The chunk is looked up in the     *)
(* current chunk set of the editor state; acceptChunk rewrites the         *)
(* original document of the merge view, rejectChunk the editor document.   *)
(***************************************************************************)
ChunkAt(chunks, pos) ==
  LET hits == {k \in 1..Len(chunks) :
                 chunks[k].fromB <= pos /\ endB(chunks[k]) >= pos}
  IN IF hits = {} THEN 0 ELSE CHOOSE k \in hits : \A h \in hits : k <= h

acceptChunk(orig, doc, pos) ==
  LET chunks == ChunkBuild(orig, doc)
      k == ChunkAt(chunks, pos)
  IN IF k = 0 THEN orig
     ELSE LET ch == chunks[k]
              body == Slice(doc, ch.fromB, Max(ch.fromB, ch.toB - 1))
              insert == IF ch.fromB # ch.toB /\ ch.toA <= Len(orig)
                        THEN body \o <<NL>> ELSE body
          IN Replace(orig, ch.fromA, Min(Len(orig), ch.toA), insert)

rejectChunk(orig, doc, pos) ==
  LET chunks == ChunkBuild(orig, doc)
      k == ChunkAt(chunks, pos)
  IN IF k = 0 THEN doc
     ELSE LET ch == chunks[k]
              body == Slice(orig, ch.fromA, Max(ch.fromA, ch.toA - 1))
              insert == IF ch.fromA # ch.toA /\ ch.toB <= Len(doc)
                        THEN body \o <<NL>> ELSE body
          IN Replace(doc, ch.fromB, Min(Len(doc), ch.toB), insert)

RECURSIVE AcceptLoop(_, _, _, _)
\* for (let i = info.chunks.length - 1; i >= 0; i--) acceptChunk(view, info.chunks[i].fromB)
AcceptLoop(orig, doc, chunks, i) ==
  IF i = 0 THEN orig
  ELSE AcceptLoop(acceptChunk(orig, doc, chunks[i].fromB), doc, chunks, i - 1)

RECURSIVE RejectLoopOffByOne(_, _, _, _)
\* The loop of rejectAll stopping before the first chunk (i > 0).
RejectLoopOffByOne(orig, doc, chunks, i) ==
  IF i <= 1 THEN doc
  ELSE RejectLoopOffByOne(orig, rejectChunk(orig, doc, chunks[i].fromB),
                          chunks, i - 1)

RECURSIVE RejectLoop(_, _, _, _)
\* for (let i = info.chunks.length - 1; i >= 0; i--) rejectChunk(view, info.chunks[i].fromB)
RejectLoop(orig, doc, chunks, i) ==
  IF i = 0 THEN doc
  ELSE RejectLoop(orig, rejectChunk(orig, doc, chunks[i].fromB), chunks, i - 1)

\* A loop that runs from the first chunk to the last.
VisitForward(n, s) == s

\* The chunk the loop of acceptAll / rejectAll handles in its step s of n:
\* for (let i = info.chunks.length - 1; i >= 0; i--).
Visit(n, s) == n - s + 1

RECURSIVE AcceptSteps(_, _, _, _)
\* The original document after the first s steps of the loop of acceptAll.
AcceptSteps(orig, doc, chunks, s) ==
  IF s = 0 THEN orig
  ELSE acceptChunk(AcceptSteps(orig, doc, chunks, s - 1), doc,
                   chunks[Visit(Len(chunks), s)].fromB)

RECURSIVE RejectSteps(_, _, _, _)
\* The editor document after the first s steps of the loop of rejectAll.
RejectSteps(orig, doc, chunks, s) ==
  IF s = 0 THEN doc
  ELSE rejectChunk(orig, RejectSteps(orig, doc, chunks, s - 1),
                   chunks[Visit(Len(chunks), s)].fromB)

\* In documents a and b, position pos lies in a chunk equal to ch.
Identifies(a, b, pos, ch) ==
  LET cur == ChunkBuild(a, b)
      k == ChunkAt(cur, pos)
  IN k # 0 /\ cur[k] = ch

\* Before step s of a loop over chunks that has brought the documents to a
\* and b, each chunk still to be handled is found at its fromB, unchanged.
StepsKeepChunks(a, b, chunks, s) ==
  \A t \in s..Len(chunks) :
    LET ch == chunks[Visit(Len(chunks), t)]
    IN Identifies(a, b, ch.fromB, ch)

(***************************************************************************)
(* Bounds and input sets.                                                  *)
(***************************************************************************)
MaxLen == 3

MaxManagers == 2

GroupMaxManagers == 3

OrderMaxManagers == 2

AsyncMaxManagers == 3

MaxCells == 3

MaxScrollRange == 3

Panes == {"left", "right"}

\* No cellId argument.
Absent == "<undefined>"

\* No originalSource / newSource argument: not a text.
NoSource == <<Absent>>

\* Ids of cells, and the cellId arguments a command is given.
CellIdPool == {"c1", "c2", "c3"}

CellIdArgs == CellIdPool \cup {Absent, "", "zz"}

Alphabet == {"a", NL}

\* Texts one keystroke (an insertion or a deletion of one character) away.
Keystrokes(t) ==
  {Replace(t, p, p, <<ch>>) : p \in 0..Len(t), ch \in Alphabet}
    \cup {Replace(t, p, p + 1, <<>>) : p \in 0..(Len(t) - 1)}

\* originalSource / newSource arguments of the unified-cell-diff command.
Sources == {<<>>, <<"a">>, <<"a", NL>>, <<NL, "a", NL, "a">>}

GroupSources == {<<>>, <<"a">>, <<"a", NL>>}

OrderSources == {<<"a">>, <<"a", NL>>}

\* Sources of up to three lines: pairs of them differ in two separate chunks.
LoopSources ==
  {<<"a">>, <<NL, "a", NL>>, <<"a", NL, "a", NL, "a">>,
   <<"a", "a", NL, "a", NL>>, <<NL, "a", NL, "a", "a">>}

\* originalSource / newSource of the split diff widget of a cell.
SplitSources == {<<>>, <<"a">>, <<"a", NL>>, <<NL, "a", NL>>, <<NL, NL>>,
                 <<"a", NL, "a">>}

\* Texts of the split file widget: constructor arguments and edits.
FileTexts == {<<>>, <<"a">>, <<"a", NL>>}

RebuildDelay == 300

\* Granularity of the clock and the number of window timers ever created.
TickMs == 100

MaxTimers == 3

\* Largest scroll offset of the right editor.
MaxScroll == 1

AllCells == {"c1", "c2"}

(***************************************************************************)
(* State.                                                                  *)
(***************************************************************************)
VARIABLES
  \* --- notebook cells and their unified diff managers ---
  cellDoc,              \* cell -> text of the editor = cell.sharedModel source
  mergeOwner,           \* cell -> manager whose _diffCompartment holds the
                        \*         unified merge view in the editor, 0 if none
  origDoc,              \* cell -> original document of that merge view
  footerButtons,        \* cell -> manager whose accept-all / reject-all
                        \*         items are in the cell footer, 0 if none
  footerShown,          \* cell -> the footer is shown
  managers,             \* sequence of the UnifiedCellDiffManager objects
  cellDiffManagers,     \* cell -> manager (0: no entry)
  notebookDiffRegistry, \* managers registered for the notebook, in order
  floatingPanel,        \* floatingPanel is not null
  panelsAttached,       \* floating panels that are children of the notebook
  nbDisposed,           \* the notebook panel is disposed
  stacked,              \* managers whose _diffCompartment still holds a merge
                        \*   view beneath the view of a later manager
  awaiting,             \* managers whose command is suspended at its await
  cellIds,              \* ids of model.cells of the notebook, in order
  activeCell,           \* index of notebook.content.activeCell, 0 if none
  hasModel,             \* notebook.content.model is not null
  findOp,               \* the last call of findCell and what it returned
  lastOp,               \* the operation that produced this state
  \* --- the split file diff widget (CodeMirrorSplitFileWidget) ---
  isAttached,           \* the widget is attached to the DOM
  isDisposed,           \* the widget is disposed
  _mergeView,           \* _mergeView is not null
  leftDoc,              \* document of _mergeView.a
  rightDoc,             \* document of _mergeView.b
  _originalCode,
  _modifiedCode,
  _fileEditorWidget,    \* a file editor widget was given to the constructor
  sharedSource,         \* source of the file editor's shared model
  listenerInstalled,    \* the update listener is part of the right editor
  _rebuildTimeout,      \* id of the timer held by the widget, 0 for null
  timers,               \* pending window timers: id -> ms since setTimeout
  nextTimerId,          \* id the next window.setTimeout returns
  rebuilds,             \* rebuilds of the merge view performed so far
  liveViews,            \* MergeView objects constructed and not destroyed
  editsSinceRebuild,    \* right-pane edits since the view was (re)built
  burstTight,           \* each of them came before the previous timer expired
  rightPane,            \* selection and scroll offsets of the right editor
  fileOp,               \* the widget operation that produced this state
  _isSyncingScroll,     \* the guard of the scroll listeners
  leftScrollTop,        \* scrollTop of the left editor's scrollDOM
  scrollRange,          \* pane -> scrollHeight - clientHeight of its scrollDOM
  scrollPending,        \* pane -> cause of the scroll event not yet delivered
  guardTimers,          \* pending 10 ms timers that release the guard
  scrollOp,             \* the scroll step that produced this state
  \* the split diff widget of a cell (CodeMirrorSplitDiffWidget)
  _splitView,           \* the MergeView of the widget exists
  editorA,              \* document of the left, read-only editor
  editorB,              \* document of the right, editable editor
  cellOriginalCode,     \* _originalCode of the cell widget
  cellModifiedCode,     \* _modifiedCode of the cell widget
  mergeArrows,          \* chunks the arrow buttons on the left editor hold
  _activeChunks,        \* the ids "fromA-toA" the widget tracks (part_001)
  rendersOnChange,      \* the update listener calls _renderMergeButtons
  splitOp               \* the cell widget operation that produced this state

uvars == <<cellDoc, mergeOwner, origDoc, footerButtons, footerShown, managers,
           cellDiffManagers, notebookDiffRegistry, floatingPanel,
           panelsAttached, nbDisposed, stacked, awaiting, cellIds, activeCell,
           hasModel, findOp, lastOp>>

\* The editors, managers and panel of the notebook.
euvars == <<cellDoc, mergeOwner, origDoc, footerButtons, footerShown, managers,
            cellDiffManagers, notebookDiffRegistry, floatingPanel,
            panelsAttached, nbDisposed, stacked, awaiting, lastOp>>

\* The cell list of the notebook: no diff operation writes it.
cvars == <<cellIds, activeCell, hasModel, findOp>>

fvars == <<isAttached, isDisposed, _mergeView, leftDoc, rightDoc,
           _originalCode, _modifiedCode, _fileEditorWidget, sharedSource,
           listenerInstalled, _rebuildTimeout, timers, nextTimerId, rebuilds,
           liveViews,
           editsSinceRebuild, burstTight, rightPane, fileOp,
           _isSyncingScroll, leftScrollTop, scrollRange, scrollPending,
           guardTimers, scrollOp>>

\* The scroll synchronisation of the two panes.
scvars == <<_isSyncingScroll, leftScrollTop, scrollRange, scrollPending,
            guardTimers, scrollOp>>

\* The file widget without its scroll synchronisation.
wvars == <<isAttached, isDisposed, _mergeView, leftDoc, rightDoc,
           _originalCode, _modifiedCode, _fileEditorWidget, sharedSource,
           listenerInstalled, _rebuildTimeout, timers, nextTimerId, rebuilds,
           liveViews,
           editsSinceRebuild, burstTight, fileOp>>

svars == <<_splitView, editorA, editorB, cellOriginalCode, cellModifiedCode,
           mergeArrows, _activeChunks, rendersOnChange, splitOp>>

vars == <<uvars, fvars, svars>>

\* The editor and footer state the manager methods read and write.
Editors == [doc |-> cellDoc, orig |-> origDoc, owner |-> mergeOwner,
            under |-> stacked,
            btn |-> footerButtons, shown |-> footerShown]

(***************************************************************************)
(* UnifiedCellDiffManager / BaseUnifiedDiffManager methods, as functions   *)
(* of the editor state E, the manager's id m and its fields mr.            *)
(***************************************************************************)
hasPendingChanges(E, mr) == mr.originalSource # E.doc[mr.cell]

removeToolbarButtons(E, mr) ==
  [E EXCEPT !.btn[mr.cell] = IF mr.showActionButtons THEN 0 ELSE @,
            !.shown[mr.cell] = FALSE]

\* Empties the manager's own compartment, wherever its view lies.
_cleanupEditor(E, m, mr) ==
  IF E.owner[mr.cell] = m
  THEN [E EXCEPT !.owner[mr.cell] = 0, !.orig[mr.cell] = <<>>]
  ELSE [E EXCEPT !.under = @ \ {m}]

deactivate(E, m, mr) == _cleanupEditor(removeToolbarButtons(E, mr), m, mr)

addToolbarButtons(E, m, mr) ==
  IF ~hasPendingChanges(E, mr) THEN removeToolbarButtons(E, mr)
  ELSE [E EXCEPT !.btn[mr.cell] = IF mr.showActionButtons THEN m ELSE @,
                 !.shown[mr.cell] = TRUE]

\* applyDiff of ./utils: installs the unified merge view with originalSource
\* as its original document and makes newSource the editor text.
\* The view goes into the manager's own, new compartment: a view another
\* manager left in the editor stays configured beneath it.
applyDiff(E, m, mr, newSource) ==
  [E EXCEPT !.owner[mr.cell] = m,
            !.orig[mr.cell] = mr.originalSource,
            !.doc[mr.cell] = newSource,
            !.under = IF E.owner[mr.cell] # 0
                      THEN @ \cup {E.owner[mr.cell]} ELSE @]

activate(E, m, mr, newSource) ==
  addToolbarButtons(applyDiff(E, m, mr, newSource), m, mr)

acceptAll(E, m, mr) ==
  LET c == mr.cell
  IN IF E.owner[c] = 0 THEN E
     ELSE LET chunks == ChunkBuild(E.orig[c], E.doc[c])
              accepted == AcceptLoop(E.orig[c], E.doc[c], chunks, Len(chunks))
          IN deactivate([E EXCEPT !.orig[c] = accepted], m, mr)

rejectAll(E, m, mr) ==
  LET c == mr.cell
  IN IF E.owner[c] = 0 THEN E
     ELSE LET chunks == ChunkBuild(E.orig[c], E.doc[c])
              rejected == RejectLoop(E.orig[c], E.doc[c], chunks, Len(chunks))
          IN deactivate([E EXCEPT !.doc[c] = rejected], m, mr)

\* A dispose() without its guard.
disposeManagerUnguarded(E, m, mr) ==
  <<deactivate(E, m, mr), [mr EXCEPT !.isDisposed = TRUE]>>

\* dispose(): returns <<editor state, manager fields>>.
disposeManager(E, m, mr) ==
  IF mr.isDisposed THEN <<E, mr>>
  ELSE <<deactivate(E, m, mr), [mr EXCEPT !.isDisposed = TRUE]>>

(***************************************************************************)
(* The registry and the floating panel of the notebook.                    *)
(***************************************************************************)
getNotebookManagers == notebookDiffRegistry

\* A handler that leaves the notebook's entry in the registry.
clearNotebookManagersKeeps(reg) == reg

\* notebookDiffRegistry.delete(notebookId): the notebook's list afterwards.
clearNotebookManagers(reg) == <<>>

hasAnyPending(E, ms, reg) ==
  \E i \in 1..Len(reg) : hasPendingChanges(E, ms[reg[i]])

\* updateFloatingPanel without the test for a panel that already exists.
updateFloatingPanelNoReuse(E, ms, reg, panel, attached) ==
  IF ~hasAnyPending(E, ms, reg)
  THEN <<FALSE, IF panel /\ attached > 0 THEN attached - 1 ELSE attached>>
  ELSE <<TRUE, attached + 1>>

\* updateFloatingPanel: returns <<floatingPanel, panelsAttached>>.
updateFloatingPanel(E, ms, reg, panel, attached) ==
  IF ~hasAnyPending(E, ms, reg)
  THEN <<FALSE, IF panel /\ attached > 0 THEN attached - 1 ELSE attached>>
  ELSE IF ~panel THEN <<TRUE, attached + 1>>
  ELSE <<panel, attached>>

\* A forEach that stops after the first manager.
AcceptEachFirstOnly(E, ms, reg, i) ==
  IF i > Len(reg) \/ i > 1 THEN E
  ELSE acceptAll(E, reg[i], ms[reg[i]])

RECURSIVE AcceptEach(_, _, _, _)
\* getNotebookManagers(notebookId).forEach(m => m.acceptAll())
AcceptEach(E, ms, reg, i) ==
  IF i > Len(reg) THEN E
  ELSE AcceptEach(acceptAll(E, reg[i], ms[reg[i]]), ms, reg, i + 1)

RECURSIVE RejectEach(_, _, _, _)
\* getNotebookManagers(notebookId).forEach(m => m.rejectAll())
RejectEach(E, ms, reg, i) ==
  IF i > Len(reg) THEN E
  ELSE RejectEach(rejectAll(E, reg[i], ms[reg[i]]), ms, reg, i + 1)

\* The orders in which a list of n managers can be visited, and the list
\* visited in order p.
Orders(n) == {p \in [1..n -> 1..n] : \A i, j \in 1..n : p[i] = p[j] => i = j}

Reordered(reg, p) == [i \in 1..Len(reg) |-> reg[p[i]]]

(***************************************************************************)
(* findCell: which cell a command acts on.                                 *)
(***************************************************************************)
\* if (cellId && ...): undefined and the empty string are falsy.
Truthy(cellId) == cellId # Absent /\ cellId # ""

RECURSIVE findLoop(_, _, _)
\* The for loop over model.cells: the index of the first cell with the id,
\* 0 if the loop ends without a break.
findLoop(cells, cellId, i) ==
  IF i > Len(cells) THEN 0
  ELSE IF cells[i] = cellId THEN i
  ELSE findLoop(cells, cellId, i + 1)

\* A findCell that gives up when no cell has the id.
findCellNoFallback(cells, active, model, cellId) ==
  IF Truthy(cellId) /\ model THEN findLoop(cells, cellId, 1) ELSE active

\* findCell(notebook, cellId): the index of the returned cell, 0 for null.
findCell(cells, active, model, cellId) ==
  LET found == IF Truthy(cellId) /\ model THEN findLoop(cells, cellId, 1)
               ELSE 0
  IN IF found # 0 THEN found ELSE active

(***************************************************************************)
(* Actions of the notebook side.                                           *)
(***************************************************************************)
\* A command looks up its cell.
FindCell(cellId) ==
  /\ findOp' = [op |-> "find", cellId |-> cellId,
                result |-> findCell(cellIds, activeCell, hasModel, cellId)]
  /\ UNCHANGED <<cellIds, activeCell, hasModel>>

\* The user makes cell i the active cell, or none (0).
ActivateCell(i) ==
  /\ i \in 0..Len(cellIds)
  /\ i # activeCell
  /\ activeCell' = i
  /\ findOp' = [op |-> "activate", cellId |-> Absent, result |-> 0]
  /\ UNCHANGED <<cellIds, hasModel>>

\* The user deletes cell i; the notebook chooses the active cell.
DeleteCell(i) ==
  /\ i \in 1..Len(cellIds)
  /\ cellIds' = [j \in 1..(Len(cellIds) - 1) |->
                   IF j < i THEN cellIds[j] ELSE cellIds[j + 1]]
  /\ activeCell' \in 0..(Len(cellIds) - 1)
  /\ findOp' = [op |-> "delete", cellId |-> Absent, result |-> 0]
  /\ UNCHANGED hasModel

\* The user adds a cell with a fresh id at the end.
AddCell(id) ==
  /\ hasModel
  /\ Len(cellIds) < MaxCells
  /\ \A j \in 1..Len(cellIds) : cellIds[j] # id
  /\ cellIds' = Append(cellIds, id)
  /\ findOp' = [op |-> "add", cellId |-> Absent, result |-> 0]
  /\ UNCHANGED <<activeCell, hasModel>>

SetEditors(E) ==
  /\ cellDoc' = E.doc
  /\ origDoc' = E.orig
  /\ mergeOwner' = E.owner
  /\ stacked' = E.under
  /\ footerButtons' = E.btn
  /\ footerShown' = E.shown

SetPanel(p) ==
  /\ floatingPanel' = p[1]
  /\ panelsAttached' = p[2]

\* lastOp: the operation, its manager and cell, the original documents,
\* cell texts and merge view owners it started from, and whether it ran
\* updateFloatingPanel (notified).
Op(name, m, c) == [op |-> name, m |-> m, cell |-> c, base |-> origDoc,
                   doc |-> cellDoc, owner |-> mergeOwner, notified |-> FALSE,
                   supplied |-> TRUE, found |-> TRUE]

\* The 'diff-updated' listener of the notebook, and the panel's own buttons:
\* updateFloatingPanel has run in the operation.
Notified(op) == [op EXCEPT !.notified = TRUE]

\* The jupyterlab-diff:unified-cell-diff command for cell c.
UnifiedCellDiff(c, originalSource, newSource, showActionButtons, limit) ==
  /\ UNCHANGED <<awaiting, cvars>>
  /\ ~nbDisposed
  /\ Len(managers) < limit
  /\ IF originalSource = <<>> \/ newSource = <<>>
     THEN /\ lastOp' = Op("rejected-args", 0, c)
          /\ UNCHANGED <<cellDoc, mergeOwner, stacked, origDoc, footerButtons,
                         footerShown, managers, cellDiffManagers,
                         notebookDiffRegistry, floatingPanel, panelsAttached,
                         nbDisposed>>
     ELSE LET existing == cellDiffManagers[c]
              old == existing # 0 /\ ~managers[existing].isDisposed
              \* existingManager.dispose()
              disposed == disposeManager(Editors, existing, managers[existing])
              E1 == IF old THEN disposed[1] ELSE Editors
              ms1 == IF old THEN [managers EXCEPT ![existing] = disposed[2]]
                     ELSE managers
              \* new UnifiedCellDiffManager(options)
              m == Len(managers) + 1
              mr == [cell |-> c, originalSource |-> originalSource,
                     isDisposed |-> FALSE,
                     showActionButtons |-> showActionButtons]
              E2 == activate(E1, m, mr, newSource)
              ms2 == Append(ms1, mr)
              \* registerCellManager: push, then the diff-updated event
              reg == Append(notebookDiffRegistry, m)
          IN /\ SetEditors(E2)
             /\ managers' = ms2
             /\ cellDiffManagers' = [cellDiffManagers EXCEPT ![c] = m]
             /\ notebookDiffRegistry' = reg
             /\ SetPanel(updateFloatingPanel(E2, ms2, reg, floatingPanel,
                                             panelsAttached))
             /\ lastOp' = Notified(Op("register", m, c))
             /\ UNCHANGED nbDisposed

\* A holder of manager m calls its dispose(), for the first time or again.
ManagerDispose(m) ==
  /\ m \in 1..Len(managers)
  /\ LET res == disposeManager(Editors, m, managers[m])
     IN /\ SetEditors(res[1])
        /\ managers' = [managers EXCEPT ![m] = res[2]]
  /\ lastOp' = Op(IF managers[m].isDisposed THEN "dispose-again"
                  ELSE "dispose", m, managers[m].cell)
  /\ UNCHANGED <<cellDiffManagers, notebookDiffRegistry, floatingPanel,
                 panelsAttached, nbDisposed, awaiting, cvars>>

\* !originalSource || !newSource: a missing argument and the empty string
\* are both falsy.
MissingArguments(originalSource, newSource) ==
  \/ originalSource \in {NoSource, <<>>}
  \/ newSource \in {NoSource, <<>>}

\* execute of the command with the arguments as the caller gives them: a
\* source is a string or absent; found says whether findNotebook, findCell
\* and the lookup of the cell widget's editor all succeed, giving cell c.
ExecuteUnifiedCellDiff(found, c, originalSource, newSource, showActionButtons, limit) ==
  IF ~MissingArguments(originalSource, newSource) /\ found
  THEN UnifiedCellDiff(c, originalSource, newSource, showActionButtons, limit)
  ELSE /\ ~nbDisposed
       /\ Len(managers) < limit
       /\ lastOp' = [Op(IF MissingArguments(originalSource, newSource)
                        THEN "rejected-args" ELSE "rejected-nocell", 0, c)
                       EXCEPT !.supplied = originalSource # NoSource
                                             /\ newSource # NoSource,
                              !.found = found]
       /\ UNCHANGED <<cellDoc, mergeOwner, stacked, origDoc, footerButtons,
                      footerShown, managers, cellDiffManagers,
                      notebookDiffRegistry, floatingPanel, panelsAttached,
                      nbDisposed, awaiting, cvars>>

\* The command's execute is an async function.  Up to its await (the
\* argument checks, the dispose of the cell's existing manager and the
\* construction of the new manager, which activates it) it runs inside the
\* call of commands.execute.
UnifiedCellDiffStart(c, originalSource, newSource, showActionButtons, limit) ==
  /\ ~nbDisposed
  /\ Len(managers) < limit
  /\ originalSource # <<>> /\ newSource # <<>>
  /\ LET existing == cellDiffManagers[c]
         old == existing # 0 /\ ~managers[existing].isDisposed
         disposed == disposeManager(Editors, existing, managers[existing])
         E1 == IF old THEN disposed[1] ELSE Editors
         ms1 == IF old THEN [managers EXCEPT ![existing] = disposed[2]]
                ELSE managers
         m == Len(managers) + 1
         mr == [cell |-> c, originalSource |-> originalSource,
                isDisposed |-> FALSE,
                showActionButtons |-> showActionButtons]
     IN /\ SetEditors(activate(E1, m, mr, newSource))
        /\ managers' = Append(ms1, mr)
        /\ awaiting' = Append(awaiting, m)
        /\ UNCHANGED cvars
        /\ lastOp' = Op("start", m, c)
  /\ UNCHANGED <<cellDiffManagers, notebookDiffRegistry, floatingPanel,
                 panelsAttached, nbDisposed>>

\* The rest of execute, run as a microtask once the awaited promise has
\* resolved: cellDiffManagers.set and registerCellManager.
UnifiedCellDiffResume ==
  /\ awaiting # <<>>
  /\ LET m == Head(awaiting)
         c == managers[m].cell
         reg == Append(notebookDiffRegistry, m)
     IN /\ cellDiffManagers' = [cellDiffManagers EXCEPT ![c] = m]
        /\ notebookDiffRegistry' = reg
        /\ SetPanel(updateFloatingPanel(Editors, managers, reg, floatingPanel,
                                        panelsAttached))
        /\ lastOp' = Notified(Op("register", m, c))
  /\ awaiting' = Tail(awaiting)
  /\ UNCHANGED cvars
  /\ UNCHANGED <<cellDoc, mergeOwner, stacked, origDoc, footerButtons,
                 footerShown, managers, nbDisposed>>

\* The Accept button a manager put in the footer of cell c.
ClickAccept(c) ==
  /\ UNCHANGED <<awaiting, cvars>>
  /\ ~nbDisposed
  /\ footerButtons[c] # 0
  /\ footerShown[c]
  /\ LET m == footerButtons[c]
     IN /\ SetEditors(acceptAll(Editors, m, managers[m]))
        /\ lastOp' = Op("acceptAll", m, c)
  /\ UNCHANGED <<managers, cellDiffManagers, notebookDiffRegistry,
                 floatingPanel, panelsAttached, nbDisposed>>

\* The Reject button a manager put in the footer of cell c.
ClickReject(c) ==
  /\ UNCHANGED <<awaiting, cvars>>
  /\ ~nbDisposed
  /\ footerButtons[c] # 0
  /\ footerShown[c]
  /\ LET m == footerButtons[c]
     IN /\ SetEditors(rejectAll(Editors, m, managers[m]))
        /\ lastOp' = Op("rejectAll", m, c)
  /\ UNCHANGED <<managers, cellDiffManagers, notebookDiffRegistry,
                 floatingPanel, panelsAttached, nbDisposed>>

\* 'Accept All' of the floating panel.
GroupAcceptAll ==
  /\ UNCHANGED <<awaiting, cvars>>
  /\ ~nbDisposed
  /\ floatingPanel /\ panelsAttached > 0
  /\ LET E == AcceptEach(Editors, managers, getNotebookManagers, 1)
     IN /\ SetEditors(E)
        /\ SetPanel(updateFloatingPanel(E, managers, getNotebookManagers,
                                        floatingPanel, panelsAttached))
  /\ lastOp' = Notified(Op("groupAccept", 0, "c1"))
  /\ UNCHANGED <<managers, cellDiffManagers, notebookDiffRegistry, nbDisposed>>

\* 'Reject All' of the floating panel.
GroupRejectAll ==
  /\ UNCHANGED <<awaiting, cvars>>
  /\ ~nbDisposed
  /\ floatingPanel /\ panelsAttached > 0
  /\ LET E == RejectEach(Editors, managers, getNotebookManagers, 1)
     IN /\ SetEditors(E)
        /\ SetPanel(updateFloatingPanel(E, managers, getNotebookManagers,
                                        floatingPanel, panelsAttached))
  /\ lastOp' = Notified(Op("groupReject", 0, "c1"))
  /\ UNCHANGED <<managers, cellDiffManagers, notebookDiffRegistry, nbDisposed>>

\* The user types in the editor of cell c.
EditCell(c, t) ==
  /\ UNCHANGED <<awaiting, cvars>>
  /\ ~nbDisposed
  /\ t # cellDoc[c]
  /\ cellDoc' = [cellDoc EXCEPT ![c] = t]
  /\ lastOp' = Op("edit", 0, c)
  /\ UNCHANGED <<mergeOwner, stacked, origDoc, footerButtons, footerShown, managers,
                 cellDiffManagers, notebookDiffRegistry, floatingPanel,
                 panelsAttached, nbDisposed>>

\* The revert control the unified merge view shows on chunk k of cell c.
RevertChunk(c, k) ==
  /\ UNCHANGED <<awaiting, cvars>>
  /\ ~nbDisposed
  /\ mergeOwner[c] # 0
  /\ LET chunks == ChunkBuild(origDoc[c], cellDoc[c])
     IN /\ k \in 1..Len(chunks)
        /\ cellDoc' = [cellDoc EXCEPT
                         ![c] = rejectChunk(origDoc[c], @, chunks[k].fromB)]
  /\ lastOp' = Op("revertChunk", mergeOwner[c], c)
  /\ UNCHANGED <<mergeOwner, stacked, origDoc, footerButtons, footerShown, managers,
                 cellDiffManagers, notebookDiffRegistry, floatingPanel,
                 panelsAttached, nbDisposed>>

\* notebookPanel.disposed
NotebookDisposed ==
  /\ UNCHANGED <<awaiting, cvars>>
  /\ ~nbDisposed
  /\ nbDisposed' = TRUE
  /\ notebookDiffRegistry' = clearNotebookManagers(notebookDiffRegistry)
  /\ floatingPanel' = FALSE
  /\ panelsAttached' = IF floatingPanel /\ panelsAttached > 0
                       THEN panelsAttached - 1 ELSE panelsAttached
  /\ lastOp' = Op("notebookDisposed", 0, "c1")
  /\ UNCHANGED <<cellDoc, mergeOwner, stacked, origDoc, footerButtons, footerShown,
                 managers, cellDiffManagers>>

(***************************************************************************)
(* The split file diff widget: window timers, the debounced and the        *)
(* immediate rebuild.                                                      *)
(***************************************************************************)
\* What can fail in a rebuild: the dispatch that restores the selection,
\* and the construction of the new MergeView.
Faults == {"selection", "MergeView"}

\* The right editor as created: cursor at the start, not scrolled.
NewPane == [selection |-> 0, scrollTop |-> 0, scrollLeft |-> 0]

\* faults: what fails in the operation under way; threw: an exception left
\* the operation.
Widget == [mv |-> _mergeView, left |-> leftDoc, right |-> rightDoc,
           orig |-> _originalCode, mod |-> _modifiedCode, n |-> rebuilds,
           views |-> liveViews,
           pane |-> rightPane, faults |-> {}, threw |-> FALSE, nested |-> 0]

SetWidget(w) ==
  /\ _mergeView' = w.mv
  /\ leftDoc' = w.left
  /\ rightDoc' = w.right
  /\ _originalCode' = w.orig
  /\ _modifiedCode' = w.mod
  /\ rebuilds' = w.n
  /\ liveViews' = w.views
  /\ rightPane' = w.pane

\* A clearTimeout that cancels nothing.
clearTimeoutNothing(ts, id) == ts

clearTimeout(ts, id) == {t \in ts : t.id # id}

setTimeout(ts, id) == ts \cup {[id |-> id, elapsed |-> 0]}

\* _scheduleRebuildDebounced: the pending timers after the call, the new
\* timer having the id newId.
_scheduleRebuildDebounced(ts, held, newId) ==
  setTimeout(IF held # 0 THEN clearTimeout(ts, held) ELSE ts, newId)

\* _scheduleRebuildImmediate without its clearTimeout.
_scheduleRebuildImmediateNoCancel(ts, held) == ts

\* The timer part of _scheduleRebuildImmediate: the pending timers after it.
_scheduleRebuildImmediate(ts, held) ==
  IF held # 0 THEN clearTimeout(ts, held) ELSE ts

RebuildLeftText(w) == w.left

\* The right text taken from the field instead of the editor.
RebuildRightTextStored(w) == w.mod

RebuildRightText(w) == w.right

\* The transactions a rebuild dispatches to the new right editor: the
\* reconfiguration of the listener compartment (_enableRightPaneSync) and the
\* selection.  Neither changes the document.
RebuildDispatches ==
  <<[effects |-> TRUE, selection |-> FALSE, docChanged |-> FALSE],
    [effects |-> FALSE, selection |-> TRUE, docChanged |-> FALSE]>>

\* An update listener that rebuilds at once on every update.
updateListenerRebuilds(update) == "rebuild"

\* What the update listener of the right editor starts for an update.
updateListener(update) == IF update.docChanged THEN "timer" ELSE "nothing"

\* Rebuilds started while the rebuild that made the dispatches is running.
NestedRebuilds(listening, dispatches) ==
  IF listening
  THEN Cardinality({i \in 1..Len(dispatches) :
                      updateListener(dispatches[i]) = "rebuild"})
  ELSE 0

\* The restore of a rebuild with the scroll offsets set inside the try.
RestoredPaneScrollInTry(w) ==
  IF "selection" \in w.faults THEN NewPane ELSE w.pane

\* A rebuild that restores nothing.
RestoredPaneNothing(w) == NewPane

\* The selection and scroll offsets of the new right editor after the
\* restore at the end of a rebuild; w.pane holds rightSelection,
\* rightScrollTop and rightScrollLeft read from the old editor.
RestoredPane(w) ==
  [selection |-> IF "selection" \in w.faults THEN NewPane.selection
                 ELSE w.pane.selection,
   scrollTop |-> w.pane.scrollTop,
   scrollLeft |-> w.pane.scrollLeft]

_rebuildMergeViewPreserveState(w) ==
  IF ~w.mv THEN w
  ELSE IF "MergeView" \in w.faults
  THEN \* the old view is destroyed and _mergeView null when new MergeView
       \* throws
       [w EXCEPT !.orig = RebuildLeftText(w),
                 !.mod = RebuildRightText(w),
                 !.mv = FALSE,
                 !.views = @ - 1,
                 !.left = <<>>,
                 !.right = <<>>,
                 !.pane = NewPane,
                 !.threw = TRUE]
  ELSE [w EXCEPT !.orig = RebuildLeftText(w),
                 !.mod = RebuildRightText(w),
                 !.left = RebuildLeftText(w),
                 !.right = RebuildRightText(w),
                 !.pane = RestoredPane(w),
                 !.nested = NestedRebuilds(listenerInstalled, RebuildDispatches),
                 !.n = @ + 1]

\* A _createSplitView without its guard.
_createSplitViewUnguarded(w) ==
  [w EXCEPT !.mv = TRUE, !.views = @ + 1, !.left = w.orig, !.right = w.mod,
            !.pane = NewPane]

_createSplitView(w) ==
  IF w.mv THEN w
  ELSE [w EXCEPT !.mv = TRUE, !.views = @ + 1, !.left = w.orig,
                 !.right = w.mod, !.pane = NewPane]

\* The merge view part of _destroySplitView.
_destroySplitView(w) ==
  [w EXCEPT !.mv = FALSE, !.views = IF w.mv THEN @ - 1 ELSE @,
            !.left = <<>>, !.right = <<>>, !.pane = NewPane]

\* fileOp: the operation, the timer it fired or created (id, elapsed), the
\* timer the widget held before it, the timers pending when
\* _scheduleRebuildImmediate returned, and the state it started from (tight:
\* every edit since the last rebuild came less than the quiet period after
\* the one before it).
\* mv and pane are the merge view and the right pane it started from, faults
\* what failed in it, threw whether an exception left it.
FOp(name) == [op |-> name, id |-> 0, elapsed |-> 0, held |-> _rebuildTimeout,
              pendingAfterImmediate |-> {}, before |-> rebuilds,
              edits |-> editsSinceRebuild, tight |-> burstTight,
              left |-> leftDoc, right |-> rightDoc, mod |-> _modifiedCode,
              mv |-> _mergeView, pane |-> rightPane, faults |-> {},
              threw |-> FALSE, nested |-> 0, text |-> <<>>,
              shared |-> sharedSource]

onAfterAttach ==
  /\ ~isDisposed
  /\ UNCHANGED <<listenerInstalled, scvars>>
  /\ ~isAttached
  /\ isAttached' = TRUE
  /\ SetWidget(_createSplitView(Widget))
  /\ editsSinceRebuild' = 0
  /\ burstTight' = TRUE
  /\ fileOp' = FOp("attach")
  /\ UNCHANGED <<isDisposed, _fileEditorWidget, sharedSource, _rebuildTimeout,
                 timers, nextTimerId>>

\* An after-attach message handled while the widget is attached.
onAfterAttachRepeated ==
  /\ ~isDisposed
  /\ UNCHANGED <<listenerInstalled, scvars>>
  /\ isAttached
  /\ SetWidget(_createSplitView(Widget))
  /\ editsSinceRebuild' = IF _mergeView THEN editsSinceRebuild ELSE 0
  /\ burstTight' = IF _mergeView THEN burstTight ELSE TRUE
  /\ fileOp' = FOp("attach-again")
  /\ UNCHANGED <<isAttached, isDisposed, _fileEditorWidget, sharedSource,
                 _rebuildTimeout, timers, nextTimerId>>

onBeforeDetach ==
  /\ ~isDisposed
  /\ UNCHANGED <<listenerInstalled, scvars>>
  /\ isAttached
  /\ isAttached' = FALSE
  /\ timers' = IF _rebuildTimeout # 0 THEN clearTimeout(timers, _rebuildTimeout)
               ELSE timers
  /\ _rebuildTimeout' = 0
  /\ SetWidget(_destroySplitView(Widget))
  /\ editsSinceRebuild' = 0
  /\ burstTight' = TRUE
  /\ fileOp' = FOp("detach")
  /\ UNCHANGED <<isDisposed, _fileEditorWidget, sharedSource, nextTimerId>>

\* dispose() called by the host (the widget is closed).
dispose ==
  /\ ~isDisposed
  /\ UNCHANGED <<listenerInstalled, scvars>>
  /\ isDisposed' = TRUE
  /\ isAttached' = FALSE
  /\ timers' = IF _rebuildTimeout # 0 THEN clearTimeout(timers, _rebuildTimeout)
               ELSE timers
  /\ _rebuildTimeout' = 0
  /\ SetWidget(_destroySplitView(Widget))
  /\ editsSinceRebuild' = 0
  /\ burstTight' = TRUE
  /\ fileOp' = FOp("dispose")
  /\ UNCHANGED <<_fileEditorWidget, sharedSource, nextTimerId>>

\* _enableRightPaneSync: whether its update listener runs on a document
\* change of the right editor.  The listener is handed to the editor as the
\* reconfiguration of a compartment made on the spot, which the editor's
\* configuration (basicSetup, lineWrapping, jupyterTheme) does not contain;
\* what that effect does is decided in @codemirror/state, outside the
\* repository, so both outcomes are kept.
_enableRightPaneSync == listenerInstalled

\* What can fail in the update listener: the write to the shared model.
EditFaults == {"setSource"}

\* The write to the shared model with no try/catch around it.
syncSharedModelUncaught(source, newText, faults) ==
  IF "setSource" \in faults THEN <<source, TRUE>> ELSE <<newText, FALSE>>

\* sharedModel.setSource(newText) in the try/catch of the update listener:
\* <<source of the shared model, an exception leaves the statement>>.
syncSharedModel(source, newText, faults) ==
  IF "setSource" \in faults THEN <<source, FALSE>> ELSE <<newText, FALSE>>

\* A document change of the right editor (typing, undo, redo): the update
\* listener, where it runs, syncs the shared model and schedules the
\* debounced rebuild.  faults is what fails in the listener.
EditRightWith(t, faults) ==
  /\ _mergeView
  /\ t # rightDoc
  /\ nextTimerId <= MaxTimers
  /\ editsSinceRebuild < MaxTimers
  /\ LET update == [effects |-> FALSE, selection |-> TRUE, docChanged |-> TRUE]
         starts == IF _enableRightPaneSync THEN updateListener(update)
                   ELSE "nothing"
         sync == IF starts # "nothing" /\ _fileEditorWidget
                 THEN syncSharedModel(sharedSource, t, faults)
                 ELSE <<sharedSource, FALSE>>
         \* the selection stays inside the document
         edited == [Widget EXCEPT !.right = t,
                                  !.pane.selection = Min(@, Len(t))]
     IN /\ sharedSource' = sync[1]
        /\ SetWidget(IF starts = "rebuild" /\ ~sync[2]
                     THEN _rebuildMergeViewPreserveState(edited) ELSE edited)
        /\ IF starts = "timer" /\ ~sync[2]
           THEN /\ timers' = _scheduleRebuildDebounced(timers, _rebuildTimeout,
                                                       nextTimerId)
                /\ _rebuildTimeout' = nextTimerId
                /\ nextTimerId' = nextTimerId + 1
                /\ fileOp' = [FOp("edit") EXCEPT !.id = nextTimerId,
                                                 !.text = t, !.faults = faults]
           ELSE /\ fileOp' = [FOp("edit") EXCEPT !.text = t, !.faults = faults,
                                                 !.threw = sync[2]]
                /\ UNCHANGED <<timers, _rebuildTimeout, nextTimerId>>
  /\ editsSinceRebuild' = editsSinceRebuild + 1
  /\ burstTight' = (burstTight /\ \A x \in timers : x.elapsed < RebuildDelay)
  /\ UNCHANGED <<isAttached, isDisposed, _fileEditorWidget, listenerInstalled,
                 scvars>>

EditRight(t) == EditRightWith(t, {})

\* Time passes.
Tick ==
  /\ \E t \in timers : t.elapsed < RebuildDelay
  /\ UNCHANGED <<listenerInstalled, scvars>>
  /\ timers' = {[t EXCEPT !.elapsed = Min(RebuildDelay, @ + TickMs)] : t \in timers}
  /\ fileOp' = FOp("tick")
  /\ UNCHANGED <<isAttached, isDisposed, _mergeView, leftDoc, rightDoc,
                 _originalCode, _modifiedCode, _fileEditorWidget, sharedSource,
                 _rebuildTimeout, nextTimerId, rebuilds, liveViews, editsSinceRebuild,
                 burstTight, rightPane>>

\* The window runs the callback of an expired timer; faults is what fails
\* in its rebuild.
TimerFireWith(faults) ==
  \E t \in timers :
    LET w == _rebuildMergeViewPreserveState([Widget EXCEPT !.faults = faults])
    IN /\ t.elapsed >= RebuildDelay
       /\ UNCHANGED <<listenerInstalled, scvars>>
       /\ timers' = timers \ {t}
       /\ _rebuildTimeout' = 0
       /\ SetWidget(w)
       /\ editsSinceRebuild' = IF _mergeView THEN 0 ELSE editsSinceRebuild
       /\ burstTight' = IF _mergeView THEN TRUE ELSE burstTight
       /\ fileOp' = [FOp("timer") EXCEPT !.id = t.id, !.elapsed = t.elapsed,
                                         !.faults = faults, !.threw = w.threw,
                                         !.nested = w.nested]
       /\ UNCHANGED <<isAttached, isDisposed, _fileEditorWidget, sharedSource,
                      nextTimerId>>

TimerFire == TimerFireWith({})

\* The Accept All button of the toolbar; faults is what fails in its rebuild.
AcceptAllClickWith(faults) ==
  /\ ~isDisposed
  /\ UNCHANGED <<listenerInstalled, scvars>>
  /\ IF ~_mergeView \/ ~_fileEditorWidget
     THEN /\ fileOp' = FOp("acceptAll-noop")
          /\ UNCHANGED <<isAttached, isDisposed, _mergeView, leftDoc, rightDoc,
                         _originalCode, _modifiedCode, _fileEditorWidget,
                         sharedSource, _rebuildTimeout, timers, nextTimerId,
                         rebuilds, liveViews, editsSinceRebuild, burstTight, rightPane>>
     ELSE LET newText == rightDoc
              ts == _scheduleRebuildImmediate(timers, _rebuildTimeout)
              w == _rebuildMergeViewPreserveState(
                     [Widget EXCEPT !.faults = faults])
          IN /\ sharedSource' = newText
             /\ timers' = ts
             /\ _rebuildTimeout' = 0
             \* this.dispose() is not reached when the rebuild throws
             /\ SetWidget(IF w.threw THEN w ELSE _destroySplitView(w))
             /\ isDisposed' = ~w.threw
             /\ isAttached' = (w.threw /\ isAttached)
             /\ editsSinceRebuild' = 0
             /\ burstTight' = TRUE
             /\ fileOp' = [FOp("acceptAll") EXCEPT
                             !.pendingAfterImmediate = ts,
                             !.faults = faults, !.threw = w.threw,
                             !.nested = w.nested]
             /\ UNCHANGED <<_fileEditorWidget, nextTimerId>>

AcceptAllClick == AcceptAllClickWith({})

\* The Reject All button of the toolbar; faults is what fails in its rebuild.
RejectAllClickWith(faults) ==
  /\ ~isDisposed
  /\ nextTimerId <= MaxTimers + 1
  /\ UNCHANGED <<listenerInstalled, scvars>>
  /\ IF ~_mergeView
     THEN /\ fileOp' = FOp("rejectAll-noop")
          /\ UNCHANGED <<isAttached, isDisposed, _mergeView, leftDoc, rightDoc,
                         _originalCode, _modifiedCode, _fileEditorWidget,
                         sharedSource, _rebuildTimeout, timers, nextTimerId,
                         rebuilds, liveViews, editsSinceRebuild, burstTight, rightPane>>
     ELSE LET leftText == leftDoc
              \* right.dispatch({changes}): the update listener, where it
              \* runs, runs when the change is not empty, and schedules a
              \* debounced rebuild
              docChanged == /\ _enableRightPaneSync
                            /\ ~(Len(rightDoc) = 0 /\ Len(leftText) = 0)
              ts1 == IF docChanged
                     THEN _scheduleRebuildDebounced(timers, _rebuildTimeout,
                                                    nextTimerId)
                     ELSE timers
              held1 == IF docChanged THEN nextTimerId ELSE _rebuildTimeout
              ts2 == _scheduleRebuildImmediate(ts1, held1)
              \* the selection is mapped into the new document
              w == _rebuildMergeViewPreserveState(
                     [Widget EXCEPT !.right = leftText, !.faults = faults,
                                    !.pane.selection = Min(@, Len(leftText))])
          IN /\ sharedSource' = IF _fileEditorWidget THEN leftText
                                ELSE sharedSource
             /\ nextTimerId' = IF docChanged THEN nextTimerId + 1 ELSE nextTimerId
             /\ timers' = ts2
             /\ _rebuildTimeout' = 0
             \* this.dispose() is not reached when the rebuild throws
             /\ SetWidget(IF w.threw THEN w ELSE _destroySplitView(w))
             /\ isDisposed' = ~w.threw
             /\ isAttached' = (w.threw /\ isAttached)
             /\ editsSinceRebuild' = 0
             /\ burstTight' = TRUE
             /\ fileOp' = [FOp("rejectAll") EXCEPT
                             !.pendingAfterImmediate = ts2,
                             !.faults = faults, !.threw = w.threw,
                             !.nested = w.nested]
             /\ UNCHANGED _fileEditorWidget

RejectAllClick == RejectAllClickWith({})

\* The user moves the cursor of the right editor.
MoveCursor(pos) ==
  /\ _mergeView
  /\ pos \in 0..Len(rightDoc)
  /\ pos # rightPane.selection
  /\ rightPane' = [rightPane EXCEPT !.selection = pos]
  /\ fileOp' = FOp("cursor")
  /\ UNCHANGED <<isAttached, isDisposed, _mergeView, leftDoc, rightDoc,
                 _originalCode, _modifiedCode, _fileEditorWidget, sharedSource,
                 listenerInstalled, _rebuildTimeout, timers, nextTimerId,
                 rebuilds, liveViews, editsSinceRebuild, burstTight, scvars>>

\* The user scrolls the right editor.
ScrollRight(top, left) ==
  /\ _mergeView
  /\ <<top, left>> # <<rightPane.scrollTop, rightPane.scrollLeft>>
  /\ rightPane' = [rightPane EXCEPT !.scrollTop = top, !.scrollLeft = left]
  /\ fileOp' = FOp("scroll")
  /\ UNCHANGED <<isAttached, isDisposed, _mergeView, leftDoc, rightDoc,
                 _originalCode, _modifiedCode, _fileEditorWidget, sharedSource,
                 listenerInstalled, _rebuildTimeout, timers, nextTimerId,
                 rebuilds, liveViews, editsSinceRebuild, burstTight, scvars>>

(***************************************************************************)
(* _enableScrollSync: each pane's scrollDOM has a 'scroll' listener that   *)
(* writes the other pane's scrollTop.  A scroll event is delivered by the  *)
(* window in a later frame than the change of scrollTop that caused it;    *)
(* the timer that releases the guard runs 10 ms after the write.  The two  *)
(* are not ordered.                                                        *)
(***************************************************************************)
OtherPane(p) == IF p = "left" THEN "right" ELSE "left"

PaneScrollTop(p) == IF p = "left" THEN leftScrollTop ELSE rightPane.scrollTop

\* Math.floor(fraction * Math.max(0, toDOM.scrollHeight - toDOM.clientHeight))
\* with fraction = fromDOM.scrollTop / Math.max(1, scrollHeight - clientHeight).
syncedScrollTop(fromTop, fromRange, toRange) ==
  (fromTop * Max(0, toRange)) \div Max(1, fromRange)

\* if (this._isSyncingScroll) return;
onScrollReturnsEarly(guard) == guard

SetPaneScrollTop(p, top) ==
  /\ leftScrollTop' = IF p = "left" THEN top ELSE leftScrollTop
  /\ rightPane' = IF p = "right" THEN [rightPane EXCEPT !.scrollTop = top]
                  ELSE rightPane

\* The documents are laid out: each scrollDOM gets its scrollable range.
LayoutPanes(l, r) ==
  /\ _mergeView
  /\ scrollRange = [p \in Panes |-> 0]
  /\ <<l, r>> # <<0, 0>>
  /\ scrollRange' = [left |-> l, right |-> r]
  /\ scrollOp' = [op |-> "layout", pane |-> "left", cause |-> "none",
                  guarded |-> FALSE, wrote |-> FALSE, writes |-> 0]
  /\ UNCHANGED <<wvars, rightPane, _isSyncingScroll, leftScrollTop,
                 scrollPending, guardTimers>>

\* The user scrolls pane p to top.
UserScroll(p, top) ==
  /\ _mergeView
  /\ top \in 0..scrollRange[p]
  /\ top # PaneScrollTop(p)
  /\ SetPaneScrollTop(p, top)
  /\ scrollPending' = [scrollPending EXCEPT ![p] = "user"]
  /\ scrollOp' = [op |-> "user", pane |-> p, cause |-> "none",
                  guarded |-> FALSE, wrote |-> FALSE, writes |-> 0]
  /\ UNCHANGED <<wvars, _isSyncingScroll, scrollRange, guardTimers>>

\* The window delivers the scroll event of pane p: onScroll of syncFrom(p, q).
ScrollEvent(p) ==
  /\ _mergeView
  /\ scrollPending[p] # "none"
  /\ LET q == OtherPane(p)
         top == syncedScrollTop(PaneScrollTop(p), scrollRange[p],
                                scrollRange[q])
         \* the browser keeps scrollTop inside the scrollable range
         set == Max(0, Min(scrollRange[q], top))
         moved == set # PaneScrollTop(q)
     IN IF onScrollReturnsEarly(_isSyncingScroll)
        THEN /\ scrollPending' = [scrollPending EXCEPT ![p] = "none"]
             /\ scrollOp' = [op |-> "event", pane |-> p,
                             cause |-> scrollPending[p], guarded |-> TRUE,
                             wrote |-> FALSE, writes |-> scrollOp.writes]
             /\ UNCHANGED <<rightPane, leftScrollTop, _isSyncingScroll,
                            guardTimers>>
        ELSE /\ _isSyncingScroll' = TRUE
             /\ SetPaneScrollTop(q, set)
             /\ guardTimers' = guardTimers + 1
             \* a scrollTop that changes queues a scroll event of q
             /\ scrollPending' =
                  [scrollPending EXCEPT ![p] = "none",
                                        ![q] = IF moved /\ @ = "none"
                                               THEN "sync" ELSE @]
             /\ scrollOp' = [op |-> "event", pane |-> p,
                             cause |-> scrollPending[p],
                             guarded |-> _isSyncingScroll, wrote |-> TRUE,
                             writes |-> scrollOp.writes + 1]
  /\ UNCHANGED <<wvars, scrollRange>>

\* The callback of window.setTimeout(..., 10).
GuardRelease ==
  /\ guardTimers > 0
  /\ guardTimers' = guardTimers - 1
  /\ _isSyncingScroll' = FALSE
  /\ scrollOp' = [scrollOp EXCEPT !.op = "release"]
  /\ UNCHANGED <<wvars, rightPane, leftScrollTop, scrollRange, scrollPending>>

(***************************************************************************)
(* The split diff widget of a cell: a MergeView of the original source     *)
(* (editor a, read-only) and the new source (editor b), with an arrow      *)
(* button on a for each chunk that copies the chunk's original text to b.  *)
(* The widget exists in two forms, src/src/diff/cell.ts, which renders the *)
(* buttons when the view is created, and src/unnamed/part_001, which       *)
(* renders them again on every document change of b (rendersOnChange).     *)
(***************************************************************************)
\* Text.sliceString: both ends are clipped to the document.
sliceString(t, from, to) ==
  LET f == Max(0, Min(Len(t), from))
  IN Slice(t, f, Max(f, Min(Len(t), to)))

\* view.dispatch({changes: {from, to, insert}}): <<document, thrown>>; a
\* range that is not inside the document is a RangeError of ChangeSet.of.
dispatchChanges(doc, from, to, insert) ==
  IF from > to \/ from < 0 \/ to > Len(doc) THEN <<doc, TRUE>>
  ELSE <<Replace(doc, from, to, insert), FALSE>>

ChunkSet(a, b) == LET chunks == ChunkBuild(a, b)
                  IN {chunks[k] : k \in 1..Len(chunks)}

\* _renderMergeButtons: the chunks the arrow buttons hold after the call.
_renderMergeButtons(again, a, b, arrows) ==
  IF ~again /\ ChunkSet(a, b) = {} THEN arrows ELSE ChunkSet(a, b)

\* The id `${chunk.fromA}-${chunk.toA}` of each chunk of a and b.
ChunkIds(a, b) == {<<ch.fromA, ch.toA>> : ch \in ChunkSet(a, b)}

\* A bookkeeping that adds the new ids and never drops an old one.
trackChunksAddOnly(active, a, b) == active \cup ChunkIds(a, b)

\* The bookkeeping at the head of _renderMergeButtons: ids of the current
\* chunks are added, then ids of no current chunk are deleted.
trackChunks(active, a, b) ==
  LET updatedSet == ChunkIds(a, b)
      added == active \cup updatedSet
  IN {id \in added : id \in updatedSet}

SOp(name) == [op |-> name, chunk |-> [fromA |-> 0, toA |-> 0, fromB |-> 0,
                                       toB |-> 0],
              a |-> editorA, b |-> editorB, arrows |-> mergeArrows,
              threw |-> FALSE]

\* onAfterAttach -> _createSplitView of the cell widget
SplitCellAttach ==
  /\ ~_splitView
  /\ _splitView' = TRUE
  /\ editorA' = cellOriginalCode
  /\ editorB' = cellModifiedCode
  /\ mergeArrows' = _renderMergeButtons(rendersOnChange, cellOriginalCode,
                                        cellModifiedCode, {})
  /\ _activeChunks' = IF rendersOnChange
                      THEN trackChunks(_activeChunks, cellOriginalCode,
                                       cellModifiedCode)
                      ELSE _activeChunks
  /\ splitOp' = SOp("attach")
  /\ UNCHANGED <<cellOriginalCode, cellModifiedCode, rendersOnChange>>

\* onBeforeDetach -> _destroySplitView of the cell widget
SplitCellDetach ==
  /\ _splitView
  /\ _splitView' = FALSE
  /\ editorA' = <<>>
  /\ editorB' = <<>>
  /\ mergeArrows' = {}
  /\ splitOp' = SOp("detach")
  /\ UNCHANGED <<cellOriginalCode, cellModifiedCode, rendersOnChange,
                 _activeChunks>>

\* The user types in editor b: the update listener.
SplitCellEdit(t) ==
  /\ _splitView
  /\ t # editorB
  /\ editorB' = t
  /\ cellModifiedCode' = t
  /\ mergeArrows' = IF rendersOnChange
                    THEN _renderMergeButtons(TRUE, editorA, t, mergeArrows)
                    ELSE mergeArrows
  /\ _activeChunks' = IF rendersOnChange
                      THEN trackChunks(_activeChunks, editorA, t)
                      ELSE _activeChunks
  /\ splitOp' = SOp("edit")
  /\ UNCHANGED <<_splitView, editorA, cellOriginalCode, rendersOnChange>>

\* btn.onclick of the arrow button that holds chunk ch.
ClickMergeArrow(ch) ==
  /\ _splitView
  /\ ch \in mergeArrows
  /\ LET origText == sliceString(editorA, ch.fromA, ch.toA)
         res == dispatchChanges(editorB, ch.fromB, ch.toB, origText)
     IN /\ splitOp' = [SOp("revert") EXCEPT !.chunk = ch, !.threw = res[2]]
        /\ IF res[2]
           THEN UNCHANGED <<editorB, cellModifiedCode, mergeArrows,
                            _activeChunks>>
           ELSE /\ editorB' = res[1]
                /\ cellModifiedCode' = res[1]
                \* the listener's render inside the dispatch, then
                \* _activeChunks.delete(id) and the render of the handler
                /\ _activeChunks' =
                     IF rendersOnChange
                     THEN trackChunks(
                            trackChunks(_activeChunks, editorA, res[1])
                              \ {<<ch.fromA, ch.toA>>},
                            editorA, res[1])
                     ELSE _activeChunks
                /\ mergeArrows' =
                     IF rendersOnChange
                     THEN _renderMergeButtons(TRUE, editorA, res[1], mergeArrows)
                     ELSE {x \in mergeArrows : x.fromA # ch.fromA}
  /\ UNCHANGED <<_splitView, editorA, cellOriginalCode, rendersOnChange>>

(***************************************************************************)
(* Specifications.                                                         *)
(***************************************************************************)
InitCellList(lists, models) ==
  /\ hasModel \in models
  /\ cellIds \in IF hasModel THEN lists ELSE {<<>>}
  /\ activeCell \in 0..Len(cellIds)
  /\ findOp = [op |-> "init", cellId |-> Absent, result |-> 0]

InitEditors ==
  /\ cellDoc = [c \in AllCells |-> <<"a">>]
  /\ mergeOwner = [c \in AllCells |-> 0]
  /\ origDoc = [c \in AllCells |-> <<>>]
  /\ footerButtons = [c \in AllCells |-> 0]
  /\ footerShown = [c \in AllCells |-> FALSE]
  /\ managers = <<>>
  /\ cellDiffManagers = [c \in AllCells |-> 0]
  /\ notebookDiffRegistry = <<>>
  /\ floatingPanel = FALSE
  /\ panelsAttached = 0
  /\ nbDisposed = FALSE
  /\ stacked = {}
  /\ awaiting = <<>>
  /\ lastOp = [op |-> "init", m |-> 0, cell |-> "c1",
               base |-> [c \in AllCells |-> <<>>],
               doc |-> [c \in AllCells |-> <<>>],
               owner |-> [c \in AllCells |-> 0], notified |-> FALSE,
               supplied |-> TRUE, found |-> TRUE]

InitNotebook ==
  /\ InitEditors
  /\ InitCellList({<<"c1", "c2">>}, {TRUE})
  /\ activeCell = 1

InitWidget(texts, fileEditors, listeners) ==
  /\ isAttached = FALSE
  /\ isDisposed = FALSE
  /\ _mergeView = FALSE
  /\ leftDoc = <<>>
  /\ rightDoc = <<>>
  /\ _originalCode \in texts
  /\ _modifiedCode \in texts
  /\ _fileEditorWidget \in fileEditors
  /\ sharedSource = _originalCode
  /\ listenerInstalled \in listeners
  /\ _rebuildTimeout = 0
  /\ timers = {}
  /\ nextTimerId = 1
  /\ rebuilds = 0
  /\ liveViews = 0
  /\ editsSinceRebuild = 0
  /\ burstTight = TRUE
  /\ rightPane = NewPane
  /\ _isSyncingScroll = FALSE
  /\ leftScrollTop = 0
  /\ scrollRange = [p \in Panes |-> 0]
  /\ scrollPending = [p \in Panes |-> "none"]
  /\ guardTimers = 0
  /\ scrollOp = [op |-> "init", pane |-> "left", cause |-> "none",
                 guarded |-> FALSE, wrote |-> FALSE, writes |-> 0]
  /\ fileOp = [op |-> "init", id |-> 0, elapsed |-> 0, held |-> 0,
               pendingAfterImmediate |-> {}, before |-> 0, edits |-> 0,
               tight |-> TRUE, left |-> <<>>, right |-> <<>>, mod |-> <<>>,
               mv |-> FALSE, pane |-> NewPane, faults |-> {}, threw |-> FALSE,
               nested |-> 0, text |-> <<>>, shared |-> <<>>]

InitSplitCell(sources, forms) ==
  /\ _splitView = FALSE
  /\ editorA = <<>>
  /\ editorB = <<>>
  /\ cellOriginalCode \in sources
  /\ cellModifiedCode \in sources
  /\ mergeArrows = {}
  /\ _activeChunks = {}
  /\ rendersOnChange \in forms
  /\ splitOp = [op |-> "init", chunk |-> [fromA |-> 0, toA |-> 0, fromB |-> 0,
                                         toB |-> 0],
                a |-> <<>>, b |-> <<>>, arrows |-> {}, threw |-> FALSE]

InitIdleCell == InitSplitCell({<<"a">>}, {TRUE})

\* One cell, every text up to MaxLen reachable by typing.
InitUnified == InitNotebook /\ InitWidget({<<"a">>}, {TRUE}, {TRUE})
                 /\ InitIdleCell

NextUnified ==
  \/ \E o \in Sources, n \in Sources, b \in BOOLEAN :
       UnifiedCellDiff("c1", o, n, b, MaxManagers) /\ UNCHANGED <<fvars, svars>>
  \/ ClickAccept("c1") /\ UNCHANGED <<fvars, svars>>
  \/ ClickReject("c1") /\ UNCHANGED <<fvars, svars>>
  \/ GroupAcceptAll /\ UNCHANGED <<fvars, svars>>
  \/ GroupRejectAll /\ UNCHANGED <<fvars, svars>>
  \/ \E t \in Keystrokes(cellDoc["c1"]) :
       Len(t) <= MaxLen /\ EditCell("c1", t) /\ UNCHANGED <<fvars, svars>>
  \/ \E k \in 1..MaxLen : RevertChunk("c1", k) /\ UNCHANGED <<fvars, svars>>
  \/ NotebookDisposed /\ UNCHANGED <<fvars, svars>>

\* Two cells of one notebook, a few texts.
NextGroup ==
  \/ \E c \in AllCells, o \in GroupSources, n \in GroupSources :
       UnifiedCellDiff(c, o, n, TRUE, GroupMaxManagers) /\ UNCHANGED <<fvars, svars>>
  \/ \E c \in AllCells : ClickAccept(c) /\ UNCHANGED <<fvars, svars>>
  \/ \E c \in AllCells : ClickReject(c) /\ UNCHANGED <<fvars, svars>>
  \/ GroupAcceptAll /\ UNCHANGED <<fvars, svars>>
  \/ GroupRejectAll /\ UNCHANGED <<fvars, svars>>
  \/ \E c \in AllCells, t \in GroupSources :
       EditCell(c, t) /\ UNCHANGED <<fvars, svars>>
  \/ \E c \in AllCells, k \in 1..MaxLen : RevertChunk(c, k) /\ UNCHANGED <<fvars, svars>>
  \/ NotebookDisposed /\ UNCHANGED <<fvars, svars>>

SpecGroup == InitUnified /\ [][NextGroup]_vars

\* Two cells of one notebook: the commands and the buttons, no typing.
NextOrder ==
  \/ \E c \in AllCells, o \in OrderSources, n \in OrderSources, b \in BOOLEAN :
       UnifiedCellDiff(c, o, n, b, OrderMaxManagers)
         /\ UNCHANGED <<fvars, svars>>
  \/ \E c \in AllCells : ClickAccept(c) /\ UNCHANGED <<fvars, svars>>
  \/ \E c \in AllCells : ClickReject(c) /\ UNCHANGED <<fvars, svars>>
  \/ GroupAcceptAll /\ UNCHANGED <<fvars, svars>>
  \/ GroupRejectAll /\ UNCHANGED <<fvars, svars>>
  \/ NotebookDisposed /\ UNCHANGED <<fvars, svars>>

SpecOrder == InitUnified /\ [][NextOrder]_vars

\* The command as the two steps of its async execute.  A click is a task of
\* its own: it runs when no continuation is waiting.  What an editor with
\* two merge views does on a click is not modelled: none is taken there.
Settled == awaiting = <<>> /\ stacked = {}

NextAsync ==
  \/ \E c \in AllCells, o \in OrderSources, n \in OrderSources, b \in BOOLEAN :
       UnifiedCellDiffStart(c, o, n, b, AsyncMaxManagers)
         /\ UNCHANGED <<fvars, svars>>
  \/ UnifiedCellDiffResume /\ UNCHANGED <<fvars, svars>>
  \/ \E c \in AllCells :
       Settled /\ ClickAccept(c) /\ UNCHANGED <<fvars, svars>>
  \/ \E c \in AllCells :
       Settled /\ ClickReject(c) /\ UNCHANGED <<fvars, svars>>
  \/ Settled /\ GroupAcceptAll /\ UNCHANGED <<fvars, svars>>
  \/ Settled /\ GroupRejectAll /\ UNCHANGED <<fvars, svars>>
  \/ Settled /\ NotebookDisposed /\ UNCHANGED <<fvars, svars>>

SpecAsync == InitUnified /\ [][NextAsync]_vars

\* Managers disposed by their holders at any time, any number of times.
NextDispose ==
  \/ \E c \in AllCells, o \in OrderSources, n \in OrderSources, b \in BOOLEAN :
       UnifiedCellDiff(c, o, n, b, MaxManagers) /\ UNCHANGED <<fvars, svars>>
  \/ \E m \in 1..MaxManagers : ManagerDispose(m) /\ UNCHANGED <<fvars, svars>>
  \/ \E c \in AllCells : ClickAccept(c) /\ UNCHANGED <<fvars, svars>>
  \/ \E c \in AllCells : ClickReject(c) /\ UNCHANGED <<fvars, svars>>

SpecDispose == InitUnified /\ [][NextDispose]_vars

\* The command with every kind of argument, and the buttons.
CommandSources == {NoSource, <<>>, <<"a">>, <<"a", NL>>}

NextCommand ==
  \/ \E found \in BOOLEAN, c \in AllCells, o \in CommandSources,
        n \in CommandSources, b \in BOOLEAN :
       ExecuteUnifiedCellDiff(found, c, o, n, b, OrderMaxManagers)
         /\ UNCHANGED <<fvars, svars>>
  \/ \E c \in AllCells : ClickAccept(c) /\ UNCHANGED <<fvars, svars>>
  \/ \E c \in AllCells : ClickReject(c) /\ UNCHANGED <<fvars, svars>>

SpecCommand == InitUnified /\ [][NextCommand]_vars

\* Diffs of several chunks in one cell, accepted and rejected as a whole.
NextLoop ==
  \/ \E o \in LoopSources, n \in LoopSources :
       UnifiedCellDiff("c1", o, n, TRUE, OrderMaxManagers)
         /\ UNCHANGED <<fvars, svars>>
  \/ ClickAccept("c1") /\ UNCHANGED <<fvars, svars>>
  \/ ClickReject("c1") /\ UNCHANGED <<fvars, svars>>

SpecLoop == InitUnified /\ [][NextLoop]_vars

\* The cell lookup of the commands, on notebooks of up to MaxCells cells.
CellLists ==
  {l \in UNION {[1..n -> CellIdPool] : n \in 0..(MaxCells - 1)} :
     \A i, j \in 1..Len(l) : l[i] = l[j] => i = j}

InitFind == InitEditors /\ InitCellList(CellLists, BOOLEAN)
              /\ InitWidget({<<"a">>}, {TRUE}, {TRUE}) /\ InitIdleCell

NextFind ==
  \/ \E id \in CellIdArgs : FindCell(id) /\ UNCHANGED <<euvars, fvars, svars>>
  \/ \E i \in 0..MaxCells :
       ActivateCell(i) /\ UNCHANGED <<euvars, fvars, svars>>
  \/ \E i \in 1..MaxCells :
       DeleteCell(i) /\ UNCHANGED <<euvars, fvars, svars>>
  \/ \E id \in CellIdPool : AddCell(id) /\ UNCHANGED <<euvars, fvars, svars>>

SpecFind == InitFind /\ [][NextFind]_vars

\* The split file widget.
InitFile == InitNotebook /\ InitWidget(FileTexts, BOOLEAN, BOOLEAN)
              /\ InitIdleCell

NextFile ==
  \/ onAfterAttach /\ UNCHANGED <<uvars, svars>>
  \/ onBeforeDetach /\ UNCHANGED <<uvars, svars>>
  \/ dispose /\ UNCHANGED <<uvars, svars>>
  \/ \E t \in FileTexts : EditRight(t) /\ UNCHANGED <<uvars, svars>>
  \/ Tick /\ UNCHANGED <<uvars, svars>>
  \/ TimerFire /\ UNCHANGED <<uvars, svars>>
  \/ AcceptAllClick /\ UNCHANGED <<uvars, svars>>
  \/ RejectAllClick /\ UNCHANGED <<uvars, svars>>

SpecFile == InitFile /\ [][NextFile]_vars

\* The file widget with a shared model whose setSource can throw.
NextFileSync ==
  \/ onAfterAttach /\ UNCHANGED <<uvars, svars>>
  \/ onBeforeDetach /\ UNCHANGED <<uvars, svars>>
  \/ dispose /\ UNCHANGED <<uvars, svars>>
  \/ \E t \in FileTexts, f \in SUBSET EditFaults :
       EditRightWith(t, f) /\ UNCHANGED <<uvars, svars>>
  \/ Tick /\ UNCHANGED <<uvars, svars>>
  \/ TimerFire /\ UNCHANGED <<uvars, svars>>
  \/ AcceptAllClick /\ UNCHANGED <<uvars, svars>>
  \/ RejectAllClick /\ UNCHANGED <<uvars, svars>>

SpecFileSync == InitFile /\ [][NextFileSync]_vars

\* The attached file widget and the scrolling of its two panes.
NextScroll ==
  \/ onAfterAttach /\ UNCHANGED <<uvars, svars>>
  \/ \E l \in 0..MaxScrollRange, r \in 0..MaxScrollRange :
       LayoutPanes(l, r) /\ UNCHANGED <<uvars, svars>>
  \/ \E p \in Panes, top \in 0..MaxScrollRange :
       UserScroll(p, top) /\ UNCHANGED <<uvars, svars>>
  \/ \E p \in Panes : ScrollEvent(p) /\ UNCHANGED <<uvars, svars>>
  \/ GuardRelease /\ UNCHANGED <<uvars, svars>>

SpecScroll == InitUnified /\ [][NextScroll]_vars

\* The window runs due timer callbacks and time advances.
SpecFileFair == SpecFile /\ WF_vars(TimerFire /\ UNCHANGED <<uvars, svars>>)
                         /\ WF_vars(Tick /\ UNCHANGED <<uvars, svars>>)

\* The notebook side (one cell) and the split file widget, which share no
\* state: each runs from the other's initial state.
NotebookIdle == lastOp.op = "init"

WidgetIdle ==
  /\ fileOp.op = "init"
  /\ _originalCode = <<"a">>
  /\ _modifiedCode = <<"a">>
  /\ _fileEditorWidget
  /\ listenerInstalled

Next ==
  \/ WidgetIdle /\ NextUnified
  \/ NotebookIdle /\ NextFile

Spec == InitFile /\ [][Next]_vars

\* The split file widget where the update listener is installed.
InitFileListening == InitFile /\ listenerInstalled

SpecFileListening == InitFileListening /\ [][NextFile]_vars
                       /\ WF_vars(TimerFire /\ UNCHANGED <<uvars, svars>>)
                       /\ WF_vars(Tick /\ UNCHANGED <<uvars, svars>>)

\* The split file widget with the user's cursor and scroll position, and
\* with rebuilds in which the selection restore or the MergeView fails.
InitFileView == InitNotebook
                  /\ InitWidget({<<"a">>, <<"a", NL>>}, {TRUE}, {TRUE})
                  /\ InitIdleCell

NextFileView ==
  \/ onAfterAttach /\ UNCHANGED <<uvars, svars>>
  \/ onBeforeDetach /\ UNCHANGED <<uvars, svars>>
  \/ dispose /\ UNCHANGED <<uvars, svars>>
  \/ \E t \in FileTexts : EditRight(t) /\ UNCHANGED <<uvars, svars>>
  \/ Tick /\ UNCHANGED <<uvars, svars>>
  \/ \E f \in SUBSET Faults : TimerFireWith(f) /\ UNCHANGED <<uvars, svars>>
  \/ \E f \in SUBSET Faults : AcceptAllClickWith(f) /\ UNCHANGED <<uvars, svars>>
  \/ \E f \in SUBSET Faults : RejectAllClickWith(f) /\ UNCHANGED <<uvars, svars>>
  \/ \E pos \in 0..MaxLen : MoveCursor(pos) /\ UNCHANGED <<uvars, svars>>
  \/ \E top \in 0..MaxScroll, left \in 0..MaxScroll :
       ScrollRight(top, left) /\ UNCHANGED <<uvars, svars>>

SpecFileView == InitFileView /\ [][NextFileView]_vars

\* The life of the merge view: attach messages, also repeated, detach,
\* dispose, and rebuilds, also those in which the MergeView fails.
NextAttach ==
  \/ onAfterAttach /\ UNCHANGED <<uvars, svars>>
  \/ onAfterAttachRepeated /\ UNCHANGED <<uvars, svars>>
  \/ onBeforeDetach /\ UNCHANGED <<uvars, svars>>
  \/ dispose /\ UNCHANGED <<uvars, svars>>
  \/ \E t \in FileTexts : EditRight(t) /\ UNCHANGED <<uvars, svars>>
  \/ Tick /\ UNCHANGED <<uvars, svars>>
  \/ \E f \in SUBSET {"MergeView"} :
       TimerFireWith(f) /\ UNCHANGED <<uvars, svars>>
  \/ \E f \in SUBSET {"MergeView"} :
       AcceptAllClickWith(f) /\ UNCHANGED <<uvars, svars>>
  \/ \E f \in SUBSET {"MergeView"} :
       RejectAllClickWith(f) /\ UNCHANGED <<uvars, svars>>

SpecAttach == InitFile /\ [][NextAttach]_vars

\* The split diff widget of a cell, in both forms.
InitSplit == InitNotebook /\ InitWidget({<<"a">>}, {TRUE}, {TRUE})
               /\ InitSplitCell(SplitSources, BOOLEAN)

NextSplit ==
  \/ SplitCellAttach /\ UNCHANGED <<uvars, fvars>>
  \/ SplitCellDetach /\ UNCHANGED <<uvars, fvars>>
  \/ \E t \in Keystrokes(editorB) :
       Len(t) <= MaxLen /\ SplitCellEdit(t) /\ UNCHANGED <<uvars, fvars>>
  \/ \E ch \in mergeArrows : ClickMergeArrow(ch) /\ UNCHANGED <<uvars, fvars>>

SpecSplit == InitSplit /\ [][NextSplit]_vars

(***************************************************************************)
(* Claims.                                                                 *)
(***************************************************************************)
\* C1: debounce coalescing.  While the merge view exists, edits of the
\* right pane are waiting for their rebuild exactly when one timer is
\* pending, and it is the timer of the last edit; an edit runs no rebuild;
\* the rebuild a timer performs comes a full quiet period after the last
\* edit of the burst, is the only one for the burst, and is built from the
\* final right text.
C1_DebounceCoalescing ==
  /\ _mergeView => ((editsSinceRebuild >= 1) <=> (Cardinality(timers) = 1))
  /\ \A t \in timers : t.id = _rebuildTimeout
  /\ fileOp.op = "timer" =>
       /\ fileOp.elapsed >= RebuildDelay
       /\ fileOp.id = fileOp.held
       /\ rebuilds = fileOp.before + 1
       /\ editsSinceRebuild = 0
       /\ _modifiedCode = fileOp.right
       /\ rightDoc = fileOp.right
  /\ fileOp.op = "edit" => rebuilds = fileOp.before

\* C2: after acceptAll() of a manager whose diff view is shown,
\* hasPendingChanges() of that manager is false.
C2_AcceptAllThenNotPending ==
  (lastOp.op = "acceptAll" /\ lastOp.owner[lastOp.cell] = lastOp.m) =>
    ~hasPendingChanges(Editors, managers[lastOp.m])

\* C3: after rejectAll() with an active diff view the working text equals
\* the baseline text: the cell text equals the original document the merge
\* view had; in the split file widget the right text (kept in _modifiedCode
\* by the rebuild) and the shared model equal the left text.
C3_RejectAllRestoresBaseline ==
  /\ (lastOp.op = "rejectAll" /\ lastOp.owner[lastOp.cell] # 0) =>
       cellDoc[lastOp.cell] = lastOp.base[lastOp.cell]
  /\ lastOp.op = "groupReject" =>
       \A c \in AllCells :
         (lastOp.owner[c] # 0 /\ \E i \in 1..Len(notebookDiffRegistry) :
                                   managers[notebookDiffRegistry[i]].cell = c)
           => cellDoc[c] = lastOp.base[c]
  /\ fileOp.op = "rejectAll" =>
       /\ _modifiedCode = fileOp.left
       /\ _originalCode = fileOp.left
       /\ _fileEditorWidget => sharedSource = fileOp.left

C3_Witness ==
  \/ /\ lastOp.op = "rejectAll"
     /\ lastOp.owner[lastOp.cell] # 0
     /\ Len(ChunkBuild(lastOp.base[lastOp.cell], lastOp.doc[lastOp.cell])) >= 2
     /\ cellDoc[lastOp.cell] = lastOp.base[lastOp.cell]
  \/ /\ fileOp.op = "rejectAll"
     /\ fileOp.right # fileOp.left
     /\ _fileEditorWidget
     /\ sharedSource = fileOp.left

\* C4: after the floating panel's Accept All, no registered manager has
\* pending changes.
C4_GroupAcceptAllClears ==
  lastOp.op = "groupAccept" =>
    ~hasAnyPending(Editors, managers, notebookDiffRegistry)

\* C5: no scheduled rebuild of a living widget is dropped.  A timer the
\* widget holds goes away only by running its rebuild, by an immediate
\* rebuild, or by being replaced by the timer of a newer edit; and edits
\* that wait for their rebuild do not wait forever.
C5_NoRebuildDropped ==
  /\ [][(_rebuildTimeout # 0 /\ _rebuildTimeout' # _rebuildTimeout) =>
          (rebuilds' = rebuilds + 1 \/ _rebuildTimeout' # 0 \/ isDisposed')]_vars
  /\ (editsSinceRebuild >= 1) ~> (editsSinceRebuild = 0)

\* C6: when _scheduleRebuildImmediate returns, the rebuild has run and no
\* timer is pending; none is pending afterwards either, so the callback of
\* the timer it cancelled never runs.
C6_ImmediateCancelsPending ==
  /\ fileOp.op \in {"acceptAll", "rejectAll"} =>
       /\ fileOp.pendingAfterImmediate = {}
       /\ rebuilds = fileOp.before + 1
       /\ _rebuildTimeout = 0
  /\ isDisposed => timers = {}

C6_Witness ==
  /\ fileOp.op = "acceptAll"
  /\ fileOp.held # 0
  /\ fileOp.edits >= 1

\* C7: a rebuild stores and shows the left and right text the editors had
\* when it ran (for Reject All, the right text it had just been given).
C7_RebuildUsesCurrentText ==
  /\ fileOp.op = "timer" /\ rebuilds = fileOp.before + 1 =>
       /\ _originalCode = fileOp.left /\ leftDoc = fileOp.left
       /\ _modifiedCode = fileOp.right /\ rightDoc = fileOp.right
  /\ fileOp.op = "acceptAll" =>
       _originalCode = fileOp.left /\ _modifiedCode = fileOp.right
  /\ fileOp.op = "rejectAll" =>
       _originalCode = fileOp.left /\ _modifiedCode = fileOp.left

C7_Witness ==
  /\ fileOp.op = "acceptAll"
  /\ fileOp.edits >= 1
  /\ fileOp.mod # fileOp.right
  /\ _modifiedCode = fileOp.right

\* C8: at most one timer is pending, it is the one the widget holds, an
\* edit leaves the timer it replaced cancelled, and the timer whose callback
\* runs is the held one.
C8_AtMostOneTimer ==
  /\ Cardinality(timers) <= 1
  /\ \A t \in timers : t.id = _rebuildTimeout
  /\ fileOp.op = "edit" => \A t \in timers : t.id # fileOp.held
  /\ fileOp.op = "timer" => fileOp.id = fileOp.held

C8_Witness ==
  /\ fileOp.op = "edit"
  /\ fileOp.held # 0
  /\ timers = {[id |-> fileOp.id, elapsed |-> 0]}

\* C9: hasPendingChanges() says whether the working text differs from the
\* baseline: from the original document of the manager's merge view while
\* it is shown, and not at all right after acceptAll or rejectAll resolved
\* the view.
C9_PendingIsTextDifference ==
  /\ \A c \in AllCells :
       mergeOwner[c] # 0 =>
         (hasPendingChanges(Editors, managers[mergeOwner[c]])
            <=> cellDoc[c] # origDoc[c])
  /\ (lastOp.op \in {"acceptAll", "rejectAll"} /\ lastOp.owner[lastOp.cell] # 0)
       => ~hasPendingChanges(Editors, managers[lastOp.m])

\* C10: right after updateFloatingPanel ran, the notebook has one floating
\* panel if some registered manager's original source differs from its
\* cell's text, and none otherwise.
C10_PanelShowsAnyPending ==
  lastOp.op \in {"register", "groupAccept", "groupReject"} =>
    LET any == \E i \in 1..Len(notebookDiffRegistry) :
                 LET mr == managers[notebookDiffRegistry[i]]
                 IN mr.originalSource # cellDoc[mr.cell]
    IN /\ panelsAttached = IF any THEN 1 ELSE 0
       /\ floatingPanel <=> any

C10_Witness ==
  /\ lastOp.op = "register"
  /\ Len(notebookDiffRegistry) >= 2
  /\ panelsAttached = 1
  /\ \E i \in 1..Len(notebookDiffRegistry) :
       ~hasPendingChanges(Editors, managers[notebookDiffRegistry[i]])
  /\ \E c \in AllCells : footerButtons[c] = 0 /\ cellDiffManagers[c] # 0

\* C11: every step that changes the managers registered for the notebook, or
\* the pending state of one of them (a registration, a per-cell Accept or
\* Reject, a group action, an edit of the cell, a disposal), runs
\* updateFloatingPanel for the notebook.
C11_ChangeNotifies ==
  [][(/\ ~nbDisposed'
      /\ \/ notebookDiffRegistry' # notebookDiffRegistry
         \/ \E i \in 1..Len(notebookDiffRegistry) :
              hasPendingChanges(Editors, managers[notebookDiffRegistry[i]])
                # hasPendingChanges(Editors', managers'[notebookDiffRegistry[i]]))
       => lastOp'.notified]_vars

\* C12: the list getNotebookManagers returns for the notebook contains no
\* disposed manager.
C12_RegistryHasNoDisposed ==
  \A i \in 1..Len(getNotebookManagers) :
    ~managers[getNotebookManagers[i]].isDisposed

\* C13: on a disposed manager acceptAll(), rejectAll() and dispose() change
\* nothing: no cell text, no original document of a merge view, no merge
\* view, no footer button; also when a newer manager has since been
\* activated on the same cell.
C13_DisposedIsInert ==
  \A m \in 1..Len(managers) :
    managers[m].isDisposed =>
      /\ acceptAll(Editors, m, managers[m]) = Editors
      /\ rejectAll(Editors, m, managers[m]) = Editors
      /\ disposeManager(Editors, m, managers[m]) = <<Editors, managers[m]>>

\* C14: acceptAll() and rejectAll() are terminal: after either has run on a
\* manager whose diff view is shown, or in the split file widget with a merge
\* view, the manager or the widget is disposed.
C14_AcceptRejectDispose ==
  /\ (lastOp.op \in {"acceptAll", "rejectAll"}
        /\ lastOp.owner[lastOp.cell] = lastOp.m) => managers[lastOp.m].isDisposed
  /\ fileOp.op \in {"acceptAll", "rejectAll"} => isDisposed

\* C15: the arrow button of a chunk that is in the current chunk set makes
\* the right document its text before the chunk, the original text of the
\* chunk, and its text after the chunk; the left document stays as it was.
C15_RevertCopiesBaselineSlice ==
  (splitOp.op = "revert" /\ splitOp.chunk \in ChunkSet(splitOp.a, splitOp.b)) =>
    LET ch == splitOp.chunk
        a == splitOp.a
        b == splitOp.b
    IN /\ editorB = sliceString(b, 0, ch.fromB)
                       \o sliceString(a, ch.fromA, ch.toA)
                       \o sliceString(b, ch.toB, Len(b))
       /\ editorA = a

\* C16: the arrow button of a chunk that is no longer in the current chunk
\* set changes nothing and raises nothing.
C16_StaleRevertIsNoOp ==
  (splitOp.op = "revert" /\ splitOp.chunk \notin ChunkSet(splitOp.a, splitOp.b)) =>
    /\ editorB = splitOp.b
    /\ ~splitOp.threw

\* C17: when the chunk set has exactly one chunk, its arrow button makes the
\* right document equal to the left one and the chunk set empty, and, where
\* the buttons are rendered again after the click, leaves no arrow button.
C17_SingleChunkRevertRestores ==
  (splitOp.op = "revert" /\ ChunkSet(splitOp.a, splitOp.b) = {splitOp.chunk}) =>
    /\ editorB = editorA
    /\ ChunkSet(editorA, editorB) = {}
    /\ rendersOnChange => mergeArrows = {}

\* C18: a rebuild of the split file view whose restore does not fail leaves
\* the new right editor with the selection, scrollTop and scrollLeft the old
\* right editor had when the rebuild began.
C18_RebuildKeepsRightPane ==
  (/\ fileOp.op = "timer"
   /\ rebuilds = fileOp.before + 1
   /\ fileOp.faults = {}) => rightPane = fileOp.pane

C18_Witness ==
  /\ fileOp.op = "timer"
  /\ rebuilds = fileOp.before + 1
  /\ fileOp.faults = {}
  /\ fileOp.edits >= 1
  /\ rightPane.selection > 0
  /\ rightPane.scrollTop > 0
  /\ rightPane.scrollLeft > 0
  /\ rightPane = fileOp.pane

\* C19: when the dispatch that restores the selection fails in a rebuild,
\* the rebuild still ends with a merge view built from the current texts,
\* the scroll offsets are those of the old right editor, and no exception
\* leaves the rebuild.
C19_SelectionFailureIgnored ==
  (/\ fileOp.op = "timer"
   /\ fileOp.mv
   /\ fileOp.faults = {"selection"}) =>
     /\ _mergeView
     /\ rebuilds = fileOp.before + 1
     /\ rightDoc = fileOp.right
     /\ rightPane.scrollTop = fileOp.pane.scrollTop
     /\ rightPane.scrollLeft = fileOp.pane.scrollLeft
     /\ ~fileOp.threw

C19_Witness ==
  /\ fileOp.op = "timer"
  /\ fileOp.mv
  /\ fileOp.faults = {"selection"}
  /\ fileOp.pane.selection > 0
  /\ fileOp.pane.scrollTop > 0
  /\ rightPane.scrollTop = fileOp.pane.scrollTop
  /\ _mergeView

\* C20: when the construction of the new merge view fails in the rebuild a
\* timer runs, the widget keeps the merge view it had, with its texts, and
\* no exception leaves the rebuild.
C20_FailedRebuildKeepsView ==
  (/\ fileOp.op = "timer"
   /\ fileOp.mv
   /\ "MergeView" \in fileOp.faults) =>
     /\ _mergeView
     /\ leftDoc = fileOp.left
     /\ rightDoc = fileOp.right
     /\ ~fileOp.threw

\* C21: at most one rebuild of the split file widget runs at a time.  An
\* operation (a timer callback, Accept All, Reject All) performs at most one
\* rebuild, and no rebuild is started by an update the running rebuild
\* itself dispatches to the new right editor.
C21_OneRebuildAtATime ==
  /\ fileOp.nested = 0
  /\ rebuilds <= fileOp.before + 1

C21_Witness ==
  /\ fileOp.op = "rejectAll"
  /\ listenerInstalled
  /\ fileOp.held # 0
  /\ fileOp.right # fileOp.left
  /\ rebuilds = fileOp.before + 1

\* C22: an edit of the right pane runs no rebuild.  When the edit has been
\* handled the number of rebuilds, the stored texts and the left document are
\* what they were, the right document is the edited text, and, where the
\* update listener runs, the shared model has the text and the only pending
\* timer is the one the edit started, with its whole delay ahead.
C22_EditRunsNoRebuild ==
  fileOp.op = "edit" =>
    /\ rebuilds = fileOp.before
    /\ _mergeView
    /\ rightDoc = fileOp.text
    /\ leftDoc = fileOp.left
    /\ _modifiedCode = fileOp.mod
    /\ listenerInstalled =>
         /\ timers = {[id |-> fileOp.id, elapsed |-> 0]}
         /\ _rebuildTimeout = fileOp.id
         /\ _fileEditorWidget => sharedSource = fileOp.text

C22_Witness ==
  /\ fileOp.op = "edit"
  /\ listenerInstalled
  /\ _fileEditorWidget
  /\ fileOp.held # 0
  /\ fileOp.mod # fileOp.text
  /\ sharedSource = fileOp.text
  /\ rebuilds = fileOp.before

\* C23: where the floating panel's buttons can be clicked, Accept All and
\* Reject All leave the same cell texts, original documents, merge views and
\* footer buttons for every order in which the registered managers are
\* visited.
C23_GroupActionOrderIndependent ==
  (~nbDisposed /\ floatingPanel /\ panelsAttached > 0) =>
    \A p \in Orders(Len(getNotebookManagers)) :
      LET reg == Reordered(getNotebookManagers, p)
      IN /\ AcceptEach(Editors, managers, reg, 1)
              = AcceptEach(Editors, managers, getNotebookManagers, 1)
         /\ RejectEach(Editors, managers, reg, 1)
              = RejectEach(Editors, managers, getNotebookManagers, 1)

C23_Witness ==
  /\ lastOp.op = "groupReject"
  /\ Len(getNotebookManagers) >= 2
  /\ \A c \in AllCells : lastOp.owner[c] # 0 /\ lastOp.doc[c] # lastOp.base[c]
  /\ \A c \in AllCells : mergeOwner[c] = 0 /\ cellDoc[c] = lastOp.base[c]

\* A manager's merge view is configured in the editor of its cell.
HoldsView(m) == mergeOwner[managers[m].cell] = m \/ m \in stacked

\* The managers that are not disposed and have a merge view in cell c.
ViewHolders(c) ==
  {m \in 1..Len(managers) :
     managers[m].cell = c /\ ~managers[m].isDisposed /\ HoldsView(m)}

\* C24: at most one manager that is not disposed has a merge view in the
\* editor of a cell, whatever commands, clicks and disposals came before.
C24_OneLiveViewPerCell ==
  \A c \in AllCells : Cardinality(ViewHolders(c)) <= 1

\* C25: right after the notebook panel is disposed, the registry has no
\* manager for the notebook, and no floating panel is attached to it.
C25_DisposedNotebookHasNoGroup ==
  lastOp.op = "notebookDisposed" =>
    /\ getNotebookManagers = <<>>
    /\ ~floatingPanel
    /\ panelsAttached = 0

\* A notebook disposed while a manager had pending changes, so with a
\* registered manager and the floating panel shown.
C25_Witness ==
  /\ lastOp.op = "notebookDisposed"
  /\ \E c \in AllCells :
       /\ lastOp.owner[c] # 0
       /\ lastOp.doc[c] # managers[lastOp.owner[c]].originalSource
  /\ getNotebookManagers = <<>>
  /\ ~floatingPanel
  /\ panelsAttached = 0

\* C26: findCell returns the cell with the given id when the notebook model
\* has one; otherwise, also without a cellId, the active cell; and null only
\* when no cell has the id and there is no active cell.
C26_FindCellByIdOrActive ==
  findOp.op = "find" =>
    LET r == findOp.result
        hit == {i \in 1..Len(cellIds) : cellIds[i] = findOp.cellId}
    IN /\ hit # {} => r \in hit
       /\ hit = {} => r = activeCell
       /\ r = 0 => hit = {} /\ activeCell = 0

\* A lookup by an id no cell has, in a notebook with cells, one of them
\* active and not the first: the active cell is returned.
C26_Witness ==
  /\ findOp.op = "find"
  /\ findOp.cellId = "zz"
  /\ Len(cellIds) >= 2
  /\ activeCell = 2
  /\ findOp.result = 2

\* C27: Accept All of the split file widget, with a file editor widget,
\* writes the right pane's text as read at the click to the shared model,
\* rebuilds at once and disposes the widget: afterwards the shared model has
\* that text, the widget is disposed, no merge view exists and no timer is
\* pending.
C27_AcceptAllWritesRebuildsDisposes ==
  fileOp.op = "acceptAll" =>
    /\ sharedSource = fileOp.right
    /\ rebuilds = fileOp.before + 1
    /\ isDisposed
    /\ ~_mergeView
    /\ _rebuildTimeout = 0
    /\ timers = {}

\* C28: acceptAll and rejectAll handle the chunks from the last to the
\* first, so before every step of the loop each chunk not yet handled, and
\* so the one the step handles, is still found at the fromB it had in the
\* initial chunk set, with the same extent in both documents.
C28_BackwardLoopKeepsEarlierChunks ==
  \A c \in AllCells :
    mergeOwner[c] # 0 =>
      LET orig == origDoc[c]
          doc == cellDoc[c]
          chunks == ChunkBuild(orig, doc)
          n == Len(chunks)
      IN /\ \A s \in 1..n :
              /\ StepsKeepChunks(AcceptSteps(orig, doc, chunks, s - 1), doc,
                                 chunks, s)
              /\ StepsKeepChunks(orig, RejectSteps(orig, doc, chunks, s - 1),
                                 chunks, s)
         /\ AcceptSteps(orig, doc, chunks, n) = AcceptLoop(orig, doc, chunks, n)
         /\ RejectSteps(orig, doc, chunks, n) = RejectLoop(orig, doc, chunks, n)

\* A diff of two chunks of different lengths was rejected as a whole, and
\* the cell has the original text again.
C28_Witness ==
  /\ lastOp.op = "rejectAll"
  /\ LET c == lastOp.cell
         chunks == ChunkBuild(lastOp.base[c], lastOp.doc[c])
     IN /\ Len(chunks) >= 2
        /\ chunks[1].toB - chunks[1].fromB # chunks[1].toA - chunks[1].fromA
        /\ cellDoc[c] = lastOp.base[c]
        /\ cellDoc[c] # lastOp.doc[c]

\* C29: in the widget that renders again on every change of the working
\* text, whatever was typed and whichever arrows were clicked, the arrow
\* buttons of the left editor are exactly the chunks of the two documents,
\* one button per chunk at its fromA, and the tracked set of active chunks
\* is exactly the set of their (fromA, toA) ids.
C29_ControlsMatchChunks ==
  (rendersOnChange /\ _splitView) =>
    /\ mergeArrows = ChunkSet(editorA, editorB)
    /\ \A x, y \in mergeArrows : x.fromA = y.fromA => x = y
    /\ _activeChunks = ChunkIds(editorA, editorB)

\* An arrow was clicked and the revert went through, and the chunk it held
\* is gone while another chunk is left with its button.
C29_Witness ==
  /\ rendersOnChange /\ _splitView
  /\ splitOp.op = "revert" /\ ~splitOp.threw
  /\ <<splitOp.chunk.fromA, splitOp.chunk.toA>> \notin _activeChunks
  /\ splitOp.chunk \notin mergeArrows
  /\ mergeArrows # {}
  /\ mergeArrows = ChunkSet(editorA, editorB)

\* C30: when setSource throws while the update listener syncs an edit of the
\* right pane to the shared model, no exception leaves the listener, the
\* debounced rebuild is scheduled all the same, and the right pane keeps the
\* edited text.
C30_SyncFailureStillSchedules ==
  (/\ fileOp.op = "edit"
   /\ "setSource" \in fileOp.faults
   /\ listenerInstalled
   /\ _fileEditorWidget) =>
     /\ ~fileOp.threw
     /\ fileOp.id # 0
     /\ _rebuildTimeout = fileOp.id
     /\ timers = {[id |-> fileOp.id, elapsed |-> 0]}
     /\ rightDoc = fileOp.text

\* The write failed during an edit that came while an earlier timer was
\* pending: the shared model still has its old text, the new timer runs.
C30_Witness ==
  /\ fileOp.op = "edit"
  /\ "setSource" \in fileOp.faults
  /\ listenerInstalled
  /\ _fileEditorWidget
  /\ fileOp.held # 0
  /\ sharedSource = fileOp.shared
  /\ sharedSource # rightDoc
  /\ rightDoc = fileOp.text
  /\ timers = {[id |-> fileOp.id, elapsed |-> 0]}

\* C31: the scroll synchronisation cannot loop: a scroll event delivered
\* while the guard is set writes no scroll position, one scroll by the user
\* leads to at most one write of the other pane's scrollTop, and the scroll
\* event that write causes leads to none.
C31_ScrollSyncCannotLoop ==
  scrollOp.op = "event" =>
    /\ scrollOp.guarded => ~scrollOp.wrote
    /\ scrollOp.writes <= 1
    /\ scrollOp.cause = "sync" => ~scrollOp.wrote

\* The outcomes of the unified-cell-diff command.
CommandOps == {"register", "rejected-args", "rejected-nocell"}

\* C32: the unified-cell-diff command creates and registers a manager
\* exactly when both sources are given as strings, the empty string
\* included, and a notebook, a cell and its editor are found; otherwise it
\* creates and registers nothing and leaves the managers as they are.
C32_CreatesIffArgumentsAndCell ==
  [][lastOp'.op \in CommandOps =>
       LET created == /\ Len(managers') = Len(managers) + 1
                      /\ notebookDiffRegistry'
                           = Append(notebookDiffRegistry, Len(managers'))
       IN /\ created <=> (lastOp'.supplied /\ lastOp'.found)
          /\ ~created => UNCHANGED <<managers, notebookDiffRegistry,
                                     cellDiffManagers, cellDoc, mergeOwner,
                                     origDoc>>]_vars

\* C33: isDisposed of a manager never goes from true back to false, and a
\* dispose() after the first runs no deactivate(): it changes nothing in the
\* editor or the footer of the cell, whoever owns them by then.
C33_DisposeOnceAndForAll ==
  [][/\ \A m \in 1..Len(managers) :
          managers[m].isDisposed => managers'[m].isDisposed
     /\ lastOp'.op = "dispose-again" =>
          UNCHANGED <<cellDoc, mergeOwner, origDoc, footerButtons, footerShown,
                      managers>>
     /\ lastOp'.op = "dispose" =>
          /\ ~managers[lastOp'.m].isDisposed
          /\ managers'[lastOp'.m].isDisposed
          /\ mergeOwner'[lastOp'.cell] # lastOp'.m]_vars

\* A disposed manager is disposed again while a later manager of the same
\* cell has its merge view and its buttons there: they stay.
C33_Witness ==
  /\ lastOp.op = "dispose-again"
  /\ managers[lastOp.m].isDisposed
  /\ mergeOwner[lastOp.cell] \notin {0, lastOp.m}
  /\ footerButtons[lastOp.cell] = mergeOwner[lastOp.cell]
  /\ footerShown[lastOp.cell]

\* The operations that end with a rebuild that ran to its end.
RebuildCompleted ==
  /\ fileOp.op = "timer"
  /\ fileOp.mv
  /\ ~fileOp.threw

C35_WorkingTextSurvivesReattach ==
  [][fileOp.op = "detach" /\ fileOp'.op = "attach" =>
       /\ _mergeView'
       /\ rightDoc' = fileOp.right]_vars

\* C36: a debounce timer is pending, or held by the widget, only while a
\* merge view exists; after detach or dispose none is pending; and a rebuild
\* invoked where no merge view exists creates none and changes nothing.
C36_NoTimerWithoutView ==
  /\ timers # {} => _mergeView
  /\ _rebuildTimeout # 0 => _mergeView
  /\ fileOp.op \in {"detach", "dispose"} =>
       /\ timers = {}
       /\ _rebuildTimeout = 0
       /\ ~_mergeView
  /\ ~_mergeView =>
       \A f \in SUBSET Faults :
         LET w == [Widget EXCEPT !.faults = f]
         IN /\ _rebuildMergeViewPreserveState(w) = w
            /\ ~_rebuildMergeViewPreserveState(w).mv

\* The widget is detached while the timer of an edit is pending.
C36_Witness ==
  /\ fileOp.op = "detach"
  /\ fileOp.held # 0
  /\ fileOp.mv
  /\ fileOp.right # fileOp.mod
  /\ timers = {}
  /\ ~_mergeView

\* C37: Accept All without a file editor widget or without a merge view
\* writes nothing, rebuilds nothing and does not dispose the widget, and
\* acts only where both exist; Reject All without a file editor widget
\* resets the right text to the left text, leaves the shared model alone and
\* disposes the widget.
C37_AcceptAllNoOpRejectAllStillResets ==
  /\ fileOp.op = "acceptAll-noop" =>
       /\ ~fileOp.mv \/ ~_fileEditorWidget
       /\ sharedSource = fileOp.shared
       /\ rebuilds = fileOp.before
       /\ _mergeView = fileOp.mv
       /\ rightDoc = fileOp.right
       /\ _modifiedCode = fileOp.mod
       /\ _rebuildTimeout = fileOp.held
       /\ ~isDisposed
  /\ fileOp.op = "acceptAll" => fileOp.mv /\ _fileEditorWidget
  /\ fileOp.op = "rejectAll" /\ ~_fileEditorWidget =>
       /\ fileOp.mv
       /\ _modifiedCode = fileOp.left
       /\ sharedSource = fileOp.shared
       /\ rebuilds = fileOp.before + 1
       /\ isDisposed
       /\ ~_mergeView

\* C38: a rebuild keeps both texts.  After the rebuild a timer runs, the
\* stored _originalCode and _modifiedCode are the left and right texts the
\* editors had when it began and, where the new view was constructed, so are
\* its left and right documents; the shared model is what it was, no timer
\* is pending or held and no further rebuild was started.  The rebuilds of
\* Accept All and Reject All store the texts of the click the same way.
C38_RebuildKeepsBothTexts ==
  /\ fileOp.op = "timer" /\ fileOp.mv =>
       /\ _originalCode = fileOp.left
       /\ _modifiedCode = fileOp.right
       /\ ~fileOp.threw =>
            /\ _mergeView
            /\ leftDoc = fileOp.left
            /\ rightDoc = fileOp.right
       /\ sharedSource = fileOp.shared
       /\ timers = {}
       /\ _rebuildTimeout = 0
       /\ fileOp.nested = 0
       /\ rebuilds <= fileOp.before + 1
  /\ fileOp.op = "acceptAll" =>
       /\ _originalCode = fileOp.left
       /\ _modifiedCode = fileOp.right
       /\ timers = {}
  /\ fileOp.op = "rejectAll" =>
       /\ _originalCode = fileOp.left
       /\ _modifiedCode = fileOp.left
       /\ timers = {}

\* The timer of an edit fires: the rebuilt view has the edited text, which
\* differs from the text stored before and from the left text.
C38_Witness ==
  /\ fileOp.op = "timer"
  /\ fileOp.mv
  /\ ~fileOp.threw
  /\ _fileEditorWidget
  /\ fileOp.right # fileOp.mod
  /\ fileOp.right # fileOp.left
  /\ rightDoc = fileOp.right
  /\ _modifiedCode = fileOp.right
  /\ rebuilds = fileOp.before + 1

====
